---- MODULE Spec2Model ----
(***************************************************************************)
(* Neatlogs span capture and delivery pipeline.                            *)
(*                                                                         *)
(* One LLMTracker (neatlogs/new_core.py) with its delivery queue and its   *)
(* single sender thread, the NeatlogsSpanProcessor attached to the tracer  *)
(* provider (neatlogs/otel/new_processor.py), the package entry point      *)
(* neatlogs.init (neatlogs/__init__.py) and the threads that call          *)
(* LLMTracker.shutdown.                                                    *)
(***************************************************************************)
EXTENDS Integers, Sequences, FiniteSets, TLC

(* ------------------------------ bounds -------------------------------- *)

\* Producer calls (on_end and direct _enqueue_span) in one run.
MaxSpans == 2
\* Calls of LLMTracker.shutdown in one run.
MaxShutdowns == 2
\* Threads calling add_tags, and add_tags calls in one run.
MaxTagThreads == 2
MaxTagCalls == 3
\* Concurrent units (threads and tasks) reading and writing the context
\* variables, and their set and clear calls in one run.
MaxUnits == 3
MaxCtxOps == 2

(* ------------------------------ state --------------------------------- *)

VARIABLES
    pkg_global_tracker,    \* neatlogs/__init__.py  _global_tracker
    core_global_tracker,   \* neatlogs/new_core.py  _global_tracker
    init_result,           \* the last neatlogs.init call: none, returned, raised
    global_provider,       \* opentelemetry.trace.get_tracer_provider()
    provider_down,         \* tracer providers whose shutdown() has run
    constructed,           \* LLMTracker.__init__ has run
    session_id,            \* self.session_id
    agent_id,              \* self.agent_id
    thread_id,             \* self.thread_id
    tags,                  \* self.tags
    tags_lock,             \* the thread holding self._lock, or NoThread
    add_tags_pc,           \* position of each thread calling add_tags
    add_tags_left,         \* the tags each add_tags call has yet to visit
    add_tags_calls,        \* add_tags calls made so far
    mod_add_tags,          \* outcome of the last neatlogs.add_tags call
    process_pc,            \* the interpreter: running, in its exit handlers, ended
    exit_call,             \* the shutdown() call the exit handler made, or NoCall
    ser_pc,                \* serialization of one span: input, serialized, chosen
    ser_span,              \* the span given to serialize_span
    ser_out,               \* what serialize_span returned
    ser_group,             \* what choose_external_trace_id returned
    unit_kind,             \* each concurrent unit: none, thread or task
    unit_parent,           \* the unit that created it, or NoUnit
    ctx,                   \* each unit's context: the three context variables
    ctx_inherited,         \* the context each unit began with
    ctx_set,               \* the context variables each unit has itself set
    ctx_ops,               \* set and clear calls made so far
    inst_env,              \* the modules installed in the host's environment
    inst_arg,              \* the instrumentations argument of instrument_all
    inst_result,           \* instrument_all: none, running, returned, raised
    inst_next,             \* index of the library instrument_all visits next
    inst_log,              \* what instrument_all did for each library so far
    dry_run,               \* self.dry_run
    enable_server_sending, \* self.enable_server_sending
    enable_otel,           \* self.enable_otel
    tracer_provider,       \* self._tracer_provider
    owns_tracer_provider,  \* self._owns_tracer_provider
    processor_attached,    \* a NeatlogsSpanProcessor(self) sits on the provider
    send_queue,            \* self._send_queue: the elements not yet taken
    unfinished_tasks,      \* self._send_queue.unfinished_tasks
    put_log,               \* every element ever put on the queue, in order
    worker_pc,             \* position of the thread running _send_worker
    worker_item,           \* the element _send_worker holds
    posts,                 \* items handed to requests.post, in order
    post_bodies,           \* the json payload of each requests.post, in order
    send_errors,           \* "Failed to send span" error records
    on_end_calls,          \* producer calls made so far
    on_end_path,           \* the path the last on_end call took
    dry_log,               \* "[Dry Run] Captured span for trace ..." records
    proc_errors,           \* "Failed to process span" error records
    on_end_raised,         \* an exception left on_end
    prod_pc,               \* position of each thread inside on_end
    prod_data,             \* the call_data local of each thread inside on_end
    prod_spans,            \* the spans each thread has called on_end for
    sd_pc,                 \* position of each shutdown() call
    sd_after               \* the call began after another call had returned

moduleVars == <<pkg_global_tracker, core_global_tracker, init_result>>
otelVars == <<global_provider, provider_down>>
identityVars == <<session_id, agent_id, thread_id>>
tagVars == <<tags, tags_lock, add_tags_pc, add_tags_left, add_tags_calls,
             mod_add_tags>>
exitVars == <<process_pc, exit_call>>
serVars == <<ser_pc, ser_span, ser_out, ser_group>>
\* The interpreter and the functions applied on their own.
ctxVars == <<unit_kind, unit_parent, ctx, ctx_inherited, ctx_set, ctx_ops>>
instVars == <<inst_env, inst_arg, inst_result, inst_next, inst_log>>
prodVars == <<prod_pc, prod_data, prod_spans>>
sideVars == <<exitVars, serVars, ctxVars, instVars, prodVars>>
\* What the pipeline's steps leave alone.
handleVars == <<identityVars, tagVars, sideVars>>
trackerVars == <<constructed, dry_run, enable_server_sending, enable_otel,
                 tracer_provider, owns_tracer_provider, processor_attached>>
queueVars == <<send_queue, unfinished_tasks, put_log>>
workerVars == <<worker_pc, worker_item, posts, post_bodies, send_errors>>
processorVars == <<on_end_calls, on_end_path, dry_log, proc_errors,
                   on_end_raised>>
shutdownVars == <<sd_pc, sd_after>>

vars == <<moduleVars, otelVars, handleVars, trackerVars, queueVars, workerVars,
          processorVars, shutdownVars>>

(* ----------------------------- values --------------------------------- *)

None == "None"
\* The tracker object init() stores and returns.
Tracker == "LLMTracker"
\* _STOP = object(): the queue's sentinel.
STOP == [stop |-> TRUE]
\* The sender thread holds no element (before its get returns).
NoItem == [none |-> TRUE]

\* The identity a host passes to LLMTracker(...).
SessionId == "session-1"
AgentId == "agent-1"
ThreadId == "thread-1"
ApiKey == "key"
\* str(uuid4()): the string the k-th call of a construction returns.
Uuid4(k) == IF k = 1 THEN "uuid4-1" ELSE "uuid4-2"

\* Tags, and the lists of tags a caller passes; the empty list also stands
\* for the absent argument (tags=None), which `tags or []` treats alike.
TagNames == {"a", "b"}
TagArgs == {<<>>, <<"a">>, <<"a", "b">>, <<"b", "a">>, <<"a", "a">>}
\* Threads that call add_tags.
TagThreads == 1..MaxTagThreads
NoThread == 0

\* Providers: the API's unconfigured proxy, a host SDK provider, a host
\* provider without add_span_processor, and the one _setup_otel creates.
HostProviders == {"host_sdk", "host_noop"}
InitialProviders == {"ProxyTracerProvider"} \cup HostProviders
OwnProvider == "neatlogs_sdk"

Shutdowns == 1..MaxShutdowns
NoCall == 0

\* The interpreter has not ended: its threads still take steps.
ProcessRunning == process_pc # "ended"

(* --------------------------- wide integers ---------------------------- *)

\* A trace id is a 128-bit and a span id a 64-bit unsigned integer.  An
\* integer of that width is held as its limbs in base 65536, the most
\* significant first: 8 limbs for a trace id, 4 for a span id.
Limb == 65536

RECURSIVE ToWide(_, _)
\* The k limbs of the integer n.
ToWide(n, k) ==
    IF k = 0 THEN <<>> ELSE Append(ToWide(n \div Limb, k - 1), n % Limb)

(* ------------------------- context variables -------------------------- *)

\* The concurrent units of the process; unit 1 is the main thread.
Units == 1..MaxUnits
NoUnit == 0
\* The ContextVar defaults: current_framework None, active_langgraph_node_span
\* None, suppress_patching False.
DefaultContext == [framework |-> None, node_span |-> None, suppress |-> FALSE]
ContextVarNames == {"framework", "node_span", "suppress"}
\* The framework name and the node span a unit sets: each unit has its own.
FrameworkOf(u) == <<"crewai", "langgraph", "autogen", "agno", "dspy">>[u]
NodeSpanOf(u) == <<"span-1", "span-2", "span-3", "span-4", "span-5">>[u]

(* ----------------------- spans handed to on_end ----------------------- *)

NoSpan == [none |-> TRUE]
\* Every span opens a trace of its own: the k-th producer call of a run
\* carries the k-th trace id.
TraceIds == <<ToWide(255, 8), ToWide(256, 8), ToWide(4095, 8), ToWide(4096, 8),
              ToWide(65535, 8), ToWide(65536, 8)>>
\* kind: the "openinference.span.kind" attribute, or "absent".
SpanKinds == {"absent", "LLM"}
\* fault: "serialize" when serialize_span raises on the span (a context
\* of None, a status without a status_code), else "none".
SpanFaults == {"none", "serialize"}
Spans(k) == [kind : SpanKinds, trace_id : {TraceIds[k]}, span_id : {ToWide(7, 4)},
             fault : SpanFaults]

(* --------------------------- serialization ---------------------------- *)

HexDigit(d) ==
    CASE d = 0 -> "0" [] d = 1 -> "1" [] d = 2 -> "2" [] d = 3 -> "3"
      [] d = 4 -> "4" [] d = 5 -> "5" [] d = 6 -> "6" [] d = 7 -> "7"
      [] d = 8 -> "8" [] d = 9 -> "9" [] d = 10 -> "a" [] d = 11 -> "b"
      [] d = 12 -> "c" [] d = 13 -> "d" [] d = 14 -> "e" [] d = 15 -> "f"

RECURSIVE HexDigits(_)
\* format(n, "x"): the digits of n, most significant first, no padding.
HexDigits(n) ==
    IF n < 16 THEN HexDigit(n) ELSE HexDigits(n \div 16) \o HexDigit(n % 16)

\* Mutant of ZeroPad: no padding, as with the format spec "x".
ZeroPad_none(s, width) == s

RECURSIVE ZeroPad(_, _)
\* The "0{width}" of the format spec: zeros on the left up to width.
ZeroPad(s, width) == IF Len(s) >= width THEN s ELSE ZeroPad("0" \o s, width)

RECURSIVE StripZeros(_)
\* The limbs of n from its first non-zero limb on.
StripZeros(n) ==
    IF n # <<>> /\ Head(n) = 0 THEN StripZeros(Tail(n)) ELSE n

RECURSIVE LimbDigits(_)
\* The digits of the limbs below the leading one: four for each.
LimbDigits(limbs) ==
    IF limbs = <<>> THEN ""
    ELSE ZeroPad(HexDigits(Head(limbs)), 4) \o LimbDigits(Tail(limbs))

\* format(n, "x") of a wide integer: its digits without leading zeros.
FormatX(n) ==
    LET m == StripZeros(n)
    IN  IF m = <<>> THEN "0" ELSE HexDigits(Head(m)) \o LimbDigits(Tail(m))

\* _hex(n, width) == format(n, f"0{width}x"), for the n that is not None.
Hex(n, width) == ZeroPad(FormatX(n), width)

\* dict.get(key): the value, or None when the key is absent.
Get(map, key) == IF key \in DOMAIN map THEN map[key] ELSE None

\* Python truthiness of an optional string.
Truthy(v) == v # None /\ v # ""

\* The resource a provider stamps on its spans: the provider _setup_otel
\* creates carries the tracker's identity, a host provider its own resource.
ResourceAttrs(provider) ==
    IF provider = OwnProvider
    THEN [k \in {"service.name", "service.version", "neatlogs.session_id",
                 "neatlogs.agent_id", "neatlogs.thread_id"} |->
            CASE k = "service.name" -> "neatlogs"
              [] k = "service.version" -> "1.1.7"
              [] k = "neatlogs.session_id" -> session_id
              [] k = "neatlogs.agent_id" -> agent_id
              [] k = "neatlogs.thread_id" -> thread_id]
    ELSE [k \in {"service.name"} |-> "host"]

\* A Python value other than the strings above: its type and, for a list
\* or a dict, the values it holds.
Py(type, items) == [type |-> type, items |-> items]

\* str(v): a string, told apart from other strings by the value it
\* represents.
Str(v) == [type |-> "str", items |-> <<>>, repr |-> v]

\* Mutant of Passes: lists and dicts are not among the listed types.
Passes_scalars_only(v) ==
    v.type \in {"str", "int", "float", "bool", "NoneType"}

\* isinstance(v, (str, int, float, bool, list, dict)) or v is None
Passes(v) ==
    v.type \in {"str", "int", "float", "bool", "list", "dict", "NoneType"}

\* The loop body of serialize_span for one attribute value: a value of a
\* listed type is kept as it is, any other becomes its string form.
Coerce(v) == IF Passes(v) THEN v ELSE Str(v)

\* The loop over an attribute mapping.  The key "custom" holds a value of
\* any type; the other attributes of the modelled spans are strings, which
\* are kept.
CoerceAll(map) ==
    [k \in DOMAIN map |-> IF k = "custom" THEN Coerce(map[k]) ELSE map[k]]

\* span.attributes of a modelled span.
SpanAttributes(span) ==
    LET keys == {"llm.model_name"}
                  \cup (IF span.kind = "absent" THEN {}
                        ELSE {"openinference.span.kind"})
                  \cup (IF "custom" \in DOMAIN span THEN {"custom"} ELSE {})
    IN  [k \in keys |-> CASE k = "llm.model_name" -> "gpt-x"
                           [] k = "openinference.span.kind" -> span.kind
                           [] k = "custom" -> span.custom]

serialize_span(span, resource) ==
    [name |-> "ChatCompletion",
     context |-> [trace_id |-> Hex(span.trace_id, 32),
                  span_id |-> Hex(span.span_id, 16)],
     parent_id |-> None,    \* the modelled spans are root spans
     attributes |-> CoerceAll(SpanAttributes(span)),
     resource |-> [attributes |-> CoerceAll(resource)],
     status |-> [status_code |-> "UNSET"]]

\* Mutant of choose_external_trace_id: the thread id is looked at first.
choose_thread_first(serialized_span) ==
    LET res_attrs == serialized_span.resource.attributes
        res_session_id == Get(res_attrs, "neatlogs.session_id")
        res_thread_id == Get(res_attrs, "neatlogs.thread_id")
        trace_id == serialized_span.context.trace_id
    IN  IF Truthy(res_thread_id) THEN res_thread_id
        ELSE IF Truthy(res_session_id) THEN res_session_id
        ELSE IF Truthy(trace_id) THEN trace_id
        ELSE "uuid4"

choose_external_trace_id(serialized_span) ==
    LET res_attrs == serialized_span.resource.attributes
        res_session_id == Get(res_attrs, "neatlogs.session_id")
        res_thread_id == Get(res_attrs, "neatlogs.thread_id")
        trace_id == serialized_span.context.trace_id
    IN  IF Truthy(res_session_id) THEN res_session_id
        ELSE IF Truthy(res_thread_id) THEN res_thread_id
        ELSE IF Truthy(trace_id) THEN trace_id
        ELSE "uuid4"

\* NewLLMCallData(trace_id, span, api_key); seq tells apart two objects
\* that carry equal data.
NewLLMCallData(seq, trace_id, span, api_key) ==
    [seq |-> seq, trace_id |-> trace_id, span |-> span, api_key |-> api_key]

(* -------------------------- instrumentation --------------------------- *)

\* A module name is the sequence of its dotted parts.
OI(name) == <<"openinference", "instrumentation", name>>

\* The libraries instrument_all visits, in its order: the key the
\* instrumentations argument names it by, the modules whose presence is
\* tested (joined by `or`), and the module of its instrumentor.
Libraries ==
    << [key |-> "openai-agents", targets |-> << <<"agents">> >>,
        instrumentor |-> OI("openai_agents")],
       [key |-> "openai", targets |-> << <<"openai">> >>,
        instrumentor |-> OI("openai")],
       [key |-> "google-genai", targets |-> << <<"google", "genai">> >>,
        instrumentor |-> OI("google_genai")],
       [key |-> "vertexai",
        targets |-> << <<"vertexai">>, <<"google", "cloud", "aiplatform">> >>,
        instrumentor |-> OI("vertexai")] >>

\* The module with its last part removed.
Parent(name) == SubSeq(name, 1, Len(name) - 1)

\* The modules an environment may hold.
Modules ==
    UNION {{Libraries[i].targets[j] : j \in DOMAIN Libraries[i].targets}
              \cup {Libraries[i].instrumentor} : i \in DOMAIN Libraries}
        \cup {<<"google">>, <<"google", "cloud">>, <<"openinference">>,
              <<"openinference", "instrumentation">>}

\* The environments: a module is installed only inside its parent package.
Environments ==
    {env \in SUBSET Modules :
        \A m \in env : Len(m) > 1 => Parent(m) \in env}

\* importlib.util.find_spec(name) in environment env: the parent of a
\* dotted name is imported first, which raises ModuleNotFoundError when it
\* is not installed; else the spec, or None when the module is not found.
find_spec(env, name) ==
    IF Len(name) > 1 /\ Parent(name) \notin env THEN "ModuleNotFoundError"
    ELSE IF name \in env THEN "spec"
    ELSE "None"

RECURSIVE find_any(_, _)
\* find_spec(a) or find_spec(b) ...: the first call that raises or finds
\* the module decides.
find_any(env, names) ==
    IF names = <<>> THEN "None"
    ELSE LET found == find_spec(env, Head(names))
         IN  IF found = "None" THEN find_any(env, Tail(names)) ELSE found

\* The values of the instrumentations argument: None, or a list of keys.
InstrumentationArgs == {None, <<"openai">>, <<"google-genai", "vertexai">>}

\* should_instrument(name)
should_instrument(arg, name) ==
    IF arg # None THEN \E i \in DOMAIN arg : arg[i] = name ELSE TRUE

\* One `if should_instrument(key):` block of instrument_all, with the
\* instrumentor's instrument() raising or not: what the block does.
instrument_library(env, arg, lib, instrumentor_raises) ==
    IF ~should_instrument(arg, lib.key) THEN "not_selected"
    ELSE LET target == find_any(env, lib.targets)
         IN  IF target = "ModuleNotFoundError" THEN "raised"
             ELSE IF target = "None" THEN "skipped"
             ELSE LET package == find_spec(env, lib.instrumentor)
                  IN  IF package = "ModuleNotFoundError" THEN "raised"
                      ELSE IF package = "None" THEN "warned_not_installed"
                      ELSE IF instrumentor_raises THEN "warned_failed"
                      ELSE "enabled"

\* instrument_all(instrumentations) in environment env lets an exception
\* out: some block raises outside its try.
InstrumentAllRaises(env, arg) ==
    \E i \in DOMAIN Libraries :
        instrument_library(env, arg, Libraries[i], FALSE) = "raised"

(* ---------------------------- construction ---------------------------- *)

\* Where _setup_otel raises: not at all, at its imports, when the span
\* processor is added, or after that (an exporter, trace.get_tracer).
SetupFaults == {"none", "import", "add_processor", "later"}

\* hasattr(provider, "add_span_processor")
HasAddSpanProcessor(provider) == provider \in {OwnProvider, "host_sdk"}

\* LLMTracker._setup_otel, run with the global provider being current and
\* raising at fault: the fields it leaves behind.
setup_otel(current_provider, fault) ==
    LET is_proxy == current_provider = "ProxyTracerProvider"
        provider == IF is_proxy THEN OwnProvider ELSE current_provider
        owns == IF is_proxy THEN "True" ELSE "False"
        attached == HasAddSpanProcessor(provider)
    IN  IF fault = "import"
        THEN [enable_otel |-> FALSE, tracer_provider |-> None,
              owns_tracer_provider |-> "unset", global_provider |-> current_provider,
              processor_attached |-> FALSE]
        ELSE IF fault = "add_processor" /\ attached
        THEN [enable_otel |-> FALSE, tracer_provider |-> provider,
              owns_tracer_provider |-> owns, global_provider |-> provider,
              processor_attached |-> FALSE]
        ELSE [enable_otel |-> (fault # "later"), tracer_provider |-> provider,
              owns_tracer_provider |-> owns, global_provider |-> provider,
              processor_attached |-> attached]

\* Mutant of ServerSending: dry run leaves the argument as given.
ServerSending_no_override(a_dry_run, a_enable_server_sending) ==
    a_enable_server_sending

\* The dry-run override of __init__: dry run switches server sending off.
ServerSending(a_dry_run, a_enable_server_sending) ==
    IF a_dry_run THEN FALSE ELSE a_enable_server_sending

\* `value or default` for an optional string argument.
Or(value, default) == IF Truthy(value) THEN value ELSE default

\* The identity arguments of a construction: session_id, agent_id, thread_id.
NoIds == [session_id |-> None, agent_id |-> None, thread_id |-> None]
GivenIds == [session_id |-> SessionId, agent_id |-> AgentId,
             thread_id |-> ThreadId]

\* LLMTracker.__init__(session_id, agent_id, thread_id, tags, dry_run,
\* enable_server_sending, enable_otel), with _setup_otel raising at fault.
LLMTracker_init(ids, a_tags, a_dry_run, a_sending, a_otel, fault) ==
    LET want_otel == IF a_dry_run THEN TRUE ELSE a_otel
        otel == IF want_otel
                THEN setup_otel(global_provider, fault)
                ELSE [enable_otel |-> FALSE, tracer_provider |-> None,
                      owns_tracer_provider |-> "unset",
                      global_provider |-> global_provider,
                      processor_attached |-> FALSE]
    IN  /\ ProcessRunning
        /\ ~constructed
        /\ constructed' = TRUE
        /\ session_id' = Or(ids.session_id, Uuid4(1))
        /\ agent_id' = Or(ids.agent_id, "default-agent")
        /\ thread_id' = Or(ids.thread_id, Uuid4(2))
        /\ tags' = a_tags
        /\ dry_run' = a_dry_run
        /\ enable_server_sending' = ServerSending(a_dry_run, a_sending)
        /\ enable_otel' = otel.enable_otel
        /\ tracer_provider' = otel.tracer_provider
        /\ owns_tracer_provider' = otel.owns_tracer_provider
        /\ processor_attached' = otel.processor_attached
        /\ global_provider' = otel.global_provider
        /\ worker_pc' = "get"
        /\ UNCHANGED <<tags_lock, add_tags_pc, add_tags_left, add_tags_calls,
                       mod_add_tags, sideVars>>
        /\ UNCHANGED <<provider_down, queueVars, worker_item, posts, post_bodies, send_errors,
                       processorVars, shutdownVars>>

\* LLMTracker(session_id, agent_id, thread_id, tags, ...) called by the
\* host, outside neatlogs.init.
LLMTracker_call(ids, a_tags) ==
    \E d \in BOOLEAN, s \in BOOLEAN, o \in BOOLEAN, f \in SetupFaults :
        /\ (~(d \/ o)) => f = "none"
        /\ LLMTracker_init(ids, a_tags, d, s, o, f)
        /\ UNCHANGED moduleVars

\* The host passes its identity and no tags.
NewTracker == LLMTracker_call(GivenIds, <<>>)

\* neatlogs.init(api_key, tags, enable_otel, dry_run): under _init_lock, the
\* tracker is constructed and stored when the package's _global_tracker is
\* None, with identity arguments of None, and then manager.instrument_all()
\* is called in the host's environment: an exception it lets out leaves
\* init, the tracker already stored.  A later call returns the stored
\* tracker.
init_call(a_tags) ==
    \/ /\ pkg_global_tracker = None
       /\ \E d \in BOOLEAN, o \in BOOLEAN, f \in SetupFaults :
            /\ (~(d \/ o)) => f = "none"
            /\ LLMTracker_init(NoIds, a_tags, d, TRUE, o, f)
       /\ pkg_global_tracker' = Tracker
       /\ \E env \in Environments :
            init_result' = IF InstrumentAllRaises(env, None)
                           THEN "raised" ELSE "returned"
       /\ UNCHANGED core_global_tracker
    \/ /\ ProcessRunning
       /\ pkg_global_tracker # None
       /\ init_result' = "returned"
       /\ UNCHANGED <<pkg_global_tracker, core_global_tracker, otelVars,
                      handleVars, trackerVars, queueVars, workerVars,
                      processorVars, shutdownVars>>

\* neatlogs.init(api_key=...), tags left at their default.
init == init_call(<<>>)

\* The package imported, no tracker constructed yet.
InitTracker ==
    /\ pkg_global_tracker = None
    /\ core_global_tracker = None
    /\ init_result = "none"
    /\ global_provider \in InitialProviders
    /\ provider_down = {}
    /\ constructed = FALSE
    /\ session_id = None
    /\ agent_id = None
    /\ thread_id = None
    /\ tags = <<>>
    /\ tags_lock = NoThread
    /\ add_tags_pc = [t \in TagThreads |-> "idle"]
    /\ add_tags_left = [t \in TagThreads |-> <<>>]
    /\ add_tags_calls = 0
    /\ mod_add_tags = [result |-> "none", after_init |-> FALSE]
    /\ process_pc = "running"
    /\ exit_call = NoCall
    /\ dry_run = FALSE
    /\ enable_server_sending = FALSE
    /\ enable_otel = FALSE
    /\ tracer_provider = None
    /\ owns_tracer_provider = "unset"
    /\ processor_attached = FALSE
    /\ send_queue = <<>>
    /\ unfinished_tasks = 0
    /\ put_log = <<>>
    /\ worker_pc = "unstarted"
    /\ worker_item = NoItem
    /\ posts = <<>>
    /\ post_bodies = <<>>
    /\ send_errors = 0
    /\ on_end_calls = 0
    /\ on_end_path = None
    /\ dry_log = <<>>
    /\ proc_errors = 0
    /\ on_end_raised = FALSE
    /\ sd_pc = [c \in Shutdowns |-> "idle"]
    /\ sd_after = [c \in Shutdowns |-> FALSE]

\* The main thread alone runs, its context empty.
InitContext ==
    /\ unit_kind = [u \in Units |-> IF u = 1 THEN "thread" ELSE "none"]
    /\ unit_parent = [u \in Units |-> NoUnit]
    /\ ctx = [u \in Units |-> DefaultContext]
    /\ ctx_inherited = [u \in Units |-> DefaultContext]
    /\ ctx_set = [u \in Units |-> {}]
    /\ ctx_ops = 0

\* The threads that end spans, and the spans each of them ends at most.
ProducerThreads == 1..2
MaxEnds == 2

\* No thread is inside on_end.
InitProducersIdle ==
    /\ prod_pc = [t \in ProducerThreads |-> "idle"]
    /\ prod_data = [t \in ProducerThreads |-> None]
    /\ prod_spans = [t \in ProducerThreads |-> <<>>]

\* instrument_all is not being called.
InitInstrumentIdle ==
    /\ inst_env = {}
    /\ inst_arg = None
    /\ inst_result = "none"
    /\ inst_next = 1
    /\ inst_log = <<>>

\* No function is being applied on its own.
InitSide ==
    /\ InitContext
    /\ InitProducersIdle
    /\ InitInstrumentIdle
    /\ ser_pc = "idle"
    /\ ser_span = NoSpan
    /\ ser_out = NoSpan
    /\ ser_group = None

Init == InitTracker /\ InitSide

(* ------------------------------ producers ----------------------------- *)

\* Mutant of queue_put: a LifoQueue, the newest element is taken first.
queue_put_lifo(element) ==
    /\ send_queue' = <<element>> \o send_queue
    /\ unfinished_tasks' = unfinished_tasks + 1
    /\ put_log' = Append(put_log, element)

\* queue.Queue.put on the unbounded queue: never blocks, never drops.
queue_put(element) ==
    /\ send_queue' = Append(send_queue, element)
    /\ unfinished_tasks' = unfinished_tasks + 1
    /\ put_log' = Append(put_log, element)

\* Mutant of enqueue_span: the queue is a Queue(maxsize=1), whose put
\* waits while the queue is full.
enqueue_span_bounded(call_data) ==
    /\ Len(send_queue) < 1
    /\ queue_put(call_data)

\* LLMTracker._enqueue_span
enqueue_span(call_data) == queue_put(call_data)

\* Mutant of Payload: the tracker's key is sent whatever the item carries.
Payload_tracker_key(data) ==
    [projectAPIKey |-> ApiKey,
     externalTraceId |-> data.trace_id,
     dataDump |-> data.span]

\* The payload _send_to_server_sync builds for an item (its timestamp, the
\* time of the attempt, left out); self.api_key is ApiKey.
Payload(data) ==
    [projectAPIKey |-> Or(data.api_key, ApiKey),
     externalTraceId |-> data.trace_id,
     dataDump |-> data.span]

\* The next NewLLMCallData object's identity.
NextSeq == on_end_calls + 1

\* Mutant of Caught: on_end without its try/except.
Caught_nothing(fault) == FALSE

\* except Exception as e: whether the handler of on_end catches what
\* reading the span raised.
Caught(fault) == fault \in SpanFaults

\* Mutant of span_kind: the filter reads another attribute.
span_kind_other_key(span) == Get(SpanAttributes(span), "llm.model_name")

\* span_kind = attributes.get("openinference.span.kind")
span_kind(span) == Get(SpanAttributes(span), "openinference.span.kind")

\* if self.tracker.enable_server_sending and not self.tracker.dry_run
ShouldEnqueue == enable_server_sending /\ ~dry_run

\* Mutant of on_end: the span is posted on the thread that ends it.
on_end_sending(span) ==
    /\ ProcessRunning
    /\ constructed
    /\ processor_attached
    /\ on_end_calls < MaxSpans
    /\ on_end_calls' = on_end_calls + 1
    /\ IF span = NoSpan
       THEN /\ on_end_path' = "no_span"
            /\ UNCHANGED <<queueVars, dry_log, proc_errors, on_end_raised>>
       ELSE IF ~Truthy(span_kind(span))
       THEN /\ on_end_path' = "filtered"
            /\ UNCHANGED <<queueVars, dry_log, proc_errors, on_end_raised>>
       ELSE IF span.fault = "serialize"
       THEN /\ on_end_path' = "raised"
            /\ IF Caught(span.fault)
               THEN proc_errors' = proc_errors + 1 /\ UNCHANGED on_end_raised
               ELSE on_end_raised' = TRUE /\ UNCHANGED proc_errors
            /\ UNCHANGED <<queueVars, dry_log>>
       ELSE LET serialized == serialize_span(span, ResourceAttrs(tracer_provider))
                external_trace_id == choose_external_trace_id(serialized)
                call_data == NewLLMCallData(NextSeq, external_trace_id,
                                            serialized, ApiKey)
            IN  /\ UNCHANGED <<proc_errors, on_end_raised>>
                /\ IF ShouldEnqueue
                   THEN /\ posts' = Append(posts, call_data)
                        /\ post_bodies' = Append(post_bodies, Payload(call_data))
                        /\ on_end_path' = "enqueued"
                        /\ UNCHANGED <<queueVars, dry_log>>
                   ELSE IF dry_run
                   THEN /\ dry_log' = Append(dry_log, external_trace_id)
                        /\ on_end_path' = "dry_run"
                        /\ UNCHANGED queueVars
                   ELSE /\ on_end_path' = "dropped"
                        /\ UNCHANGED <<queueVars, dry_log>>
    /\ IF span # NoSpan /\ Truthy(span_kind(span)) /\ span.fault = "none"
          /\ ShouldEnqueue
       THEN TRUE
       ELSE UNCHANGED <<posts, post_bodies>>
    /\ UNCHANGED <<moduleVars, handleVars, otelVars, trackerVars, worker_pc,
                   worker_item, send_errors, shutdownVars>>

\* NeatlogsSpanProcessor.on_end(span), called by the tracing runtime on
\* whichever thread ends the span.
on_end(span) ==
    /\ ProcessRunning
    /\ constructed
    /\ processor_attached
    /\ on_end_calls < MaxSpans
    /\ on_end_calls' = on_end_calls + 1
    /\ IF span = NoSpan
       THEN /\ on_end_path' = "no_span"
            /\ UNCHANGED <<queueVars, dry_log, proc_errors, on_end_raised>>
       ELSE IF ~Truthy(span_kind(span))
       THEN /\ on_end_path' = "filtered"
            /\ UNCHANGED <<queueVars, dry_log, proc_errors, on_end_raised>>
       ELSE IF span.fault = "serialize"
       THEN /\ on_end_path' = "raised"
            /\ IF Caught(span.fault)
               THEN proc_errors' = proc_errors + 1 /\ UNCHANGED on_end_raised
               ELSE on_end_raised' = TRUE /\ UNCHANGED proc_errors
            /\ UNCHANGED <<queueVars, dry_log>>
       ELSE LET serialized == serialize_span(span, ResourceAttrs(tracer_provider))
                external_trace_id == choose_external_trace_id(serialized)
                call_data == NewLLMCallData(NextSeq, external_trace_id,
                                            serialized, ApiKey)
            IN  /\ UNCHANGED <<proc_errors, on_end_raised>>
                /\ IF ShouldEnqueue
                   THEN /\ enqueue_span(call_data)
                        /\ on_end_path' = "enqueued"
                        /\ UNCHANGED dry_log
                   ELSE IF dry_run
                   THEN /\ dry_log' = Append(dry_log, external_trace_id)
                        /\ on_end_path' = "dry_run"
                        /\ UNCHANGED queueVars
                   ELSE /\ on_end_path' = "dropped"
                        /\ UNCHANGED <<queueVars, dry_log>>
    /\ UNCHANGED <<moduleVars, handleVars, otelVars, trackerVars, workerVars, shutdownVars>>

OnEnd == \E span \in Spans(NextSeq) \cup {NoSpan} : on_end(span)

\* Items a caller builds itself and hands to the tracker.
\* with distinct trace ids.
DirectTraceIds == <<"a", "b", "c", "d", "e", "f">>
\* Their api_key is unset, a key of the item's own, or empty.
DirectApiKeys == <<None, "item-key", "", None, "item-key", "">>
DirectCallData == NewLLMCallData(NextSeq, DirectTraceIds[NextSeq],
                                 [name |-> "direct"], DirectApiKeys[NextSeq])

\* tracker._enqueue_span(call_data), called directly.
EnqueueSpan ==
    /\ ProcessRunning
    /\ constructed
    /\ on_end_calls < MaxSpans
    /\ on_end_calls' = on_end_calls + 1
    /\ enqueue_span(DirectCallData)
    /\ UNCHANGED <<moduleVars, handleVars, otelVars, trackerVars, workerVars, shutdownVars,
                   on_end_path, dry_log, proc_errors, on_end_raised>>

\* LLMTracker.log_llm_call(call_data): the file record, then the enqueue
\* when server sending is enabled.
log_llm_call ==
    /\ ProcessRunning
    /\ constructed
    /\ on_end_calls < MaxSpans
    /\ on_end_calls' = on_end_calls + 1
    /\ IF enable_server_sending
       THEN enqueue_span(DirectCallData)
       ELSE UNCHANGED queueVars
    /\ UNCHANGED <<moduleVars, handleVars, otelVars, trackerVars, workerVars, shutdownVars,
                   on_end_path, dry_log, proc_errors, on_end_raised>>

(* ------------------------------- worker ------------------------------- *)

\* Outcomes of requests.post + raise_for_status.
PostOutcomes == {"2xx", "non2xx", "transport_error"}

\* item = self._send_queue.get(): blocks while the queue is empty.
WorkerGet ==
    /\ worker_pc = "get"
    /\ send_queue # <<>>
    /\ worker_item' = Head(send_queue)
    /\ send_queue' = Tail(send_queue)
    /\ worker_pc' = IF Head(send_queue) = STOP THEN "stop" ELSE "send"
    /\ UNCHANGED <<moduleVars, handleVars, otelVars, trackerVars, unfinished_tasks, put_log,
                   posts, post_bodies, send_errors, processorVars, shutdownVars>>

\* Mutant of WorkerSend: the worker posts without looking at
\* enable_server_sending.
WorkerSend_unconditional ==
    /\ worker_pc = "send"
    /\ worker_pc' = "post"
    /\ posts' = Append(posts, worker_item)
    /\ post_bodies' = Append(post_bodies, Payload(worker_item))
    /\ UNCHANGED <<moduleVars, handleVars, otelVars, trackerVars, queueVars, worker_item,
                   send_errors, processorVars, shutdownVars>>

\* _send_to_server_sync up to requests.post: returns at once when server
\* sending is disabled, else issues the POST.
WorkerSend ==
    /\ worker_pc = "send"
    /\ IF ~enable_server_sending
       THEN /\ worker_pc' = "task_done"
            /\ UNCHANGED <<posts, post_bodies>>
       ELSE /\ worker_pc' = "post"
            /\ posts' = Append(posts, worker_item)
            /\ post_bodies' = Append(post_bodies, Payload(worker_item))
    /\ UNCHANGED <<moduleVars, handleVars, otelVars, trackerVars, queueVars, worker_item,
                   send_errors, processorVars, shutdownVars>>

\* Mutant of WorkerPostReturn: a failed attempt ends the worker loop.
WorkerPostReturn_fatal ==
    \E outcome \in PostOutcomes :
        /\ worker_pc = "post"
        /\ send_errors' = IF outcome = "2xx" THEN send_errors ELSE send_errors + 1
        /\ worker_pc' = IF outcome = "2xx" THEN "task_done" ELSE "break"
        /\ unfinished_tasks' =
              IF outcome = "2xx" THEN unfinished_tasks ELSE unfinished_tasks - 1
        /\ UNCHANGED <<moduleVars, handleVars, otelVars, trackerVars, send_queue, put_log,
                       worker_item, posts, post_bodies, processorVars, shutdownVars>>

\* Mutant of WorkerPostReturn: a failed item is put back on the queue.
WorkerPostReturn_retry ==
    \E outcome \in PostOutcomes :
        /\ worker_pc = "post"
        /\ send_errors' = IF outcome = "2xx" THEN send_errors ELSE send_errors + 1
        /\ worker_pc' = "task_done"
        /\ IF outcome = "2xx" \/ Len(put_log) > MaxSpans + MaxShutdowns
           THEN UNCHANGED queueVars
           ELSE queue_put(worker_item)
        /\ UNCHANGED <<moduleVars, handleVars, otelVars, trackerVars, worker_item,
                       posts, post_bodies, processorVars, shutdownVars>>

\* requests.post returns or raises; raise_for_status; except Exception logs.
WorkerPostReturn ==
    \E outcome \in PostOutcomes :
        /\ worker_pc = "post"
        /\ send_errors' = IF outcome = "2xx" THEN send_errors ELSE send_errors + 1
        /\ worker_pc' = "task_done"
        /\ UNCHANGED <<moduleVars, handleVars, otelVars, trackerVars, queueVars, worker_item,
                       posts, post_bodies, processorVars, shutdownVars>>

\* finally: self._send_queue.task_done(), then the next get.
WorkerTaskDone ==
    /\ worker_pc = "task_done"
    /\ unfinished_tasks' = unfinished_tasks - 1
    /\ worker_item' = NoItem
    /\ worker_pc' = "get"
    /\ UNCHANGED <<moduleVars, handleVars, otelVars, trackerVars, send_queue, put_log,
                   posts, post_bodies, send_errors, processorVars, shutdownVars>>

\* Mutant of WorkerStop: the sentinel is not marked processed.
WorkerStop_unmarked ==
    /\ worker_pc = "stop"
    /\ worker_item' = NoItem
    /\ worker_pc' = "break"
    /\ UNCHANGED <<moduleVars, handleVars, otelVars, trackerVars, queueVars,
                   posts, post_bodies, send_errors, processorVars, shutdownVars>>

\* Mutant of WorkerStop: the worker goes on to the next get after the
\* sentinel.
WorkerStop_continuing ==
    /\ worker_pc = "stop"
    /\ unfinished_tasks' = unfinished_tasks - 1
    /\ worker_item' = NoItem
    /\ worker_pc' = "get"
    /\ UNCHANGED <<moduleVars, handleVars, otelVars, trackerVars, send_queue, put_log,
                   posts, post_bodies, send_errors, processorVars, shutdownVars>>

\* item is _STOP: task_done(), break.
WorkerStop ==
    /\ worker_pc = "stop"
    /\ unfinished_tasks' = unfinished_tasks - 1
    /\ worker_item' = NoItem
    /\ worker_pc' = "break"
    /\ UNCHANGED <<moduleVars, handleVars, otelVars, trackerVars, send_queue, put_log,
                   posts, post_bodies, send_errors, processorVars, shutdownVars>>

\* Mutant of WorkerExit: a new sender thread is started when one ends.
WorkerExit_restarting ==
    /\ worker_pc = "break"
    /\ worker_pc' = "get"
    /\ UNCHANGED <<moduleVars, handleVars, otelVars, trackerVars, queueVars, worker_item,
                   posts, post_bodies, send_errors, processorVars, shutdownVars>>

\* _send_worker returns: the thread is no longer alive.
WorkerExit ==
    /\ worker_pc = "break"
    /\ worker_pc' = "dead"
    /\ UNCHANGED <<moduleVars, handleVars, otelVars, trackerVars, queueVars, worker_item,
                   posts, post_bodies, send_errors, processorVars, shutdownVars>>

\* self._sender_thread.is_alive()
is_alive == worker_pc \notin {"unstarted", "dead", "killed"}

(* ------------------------------ shutdown ------------------------------ *)

\* Some shutdown() call has returned.
SomeReturned == \E c \in Shutdowns : sd_pc[c] = "returned"

\* Mutant of ShutdownPut: shutdown empties the queue before the sentinel.
ShutdownPut_discarding(c) ==
    /\ ProcessRunning
    /\ constructed
    /\ sd_pc[c] = "idle"
    /\ \A b \in Shutdowns : b < c => sd_pc[b] # "idle"
    /\ send_queue' = <<STOP>>
    /\ unfinished_tasks' = unfinished_tasks - Len(send_queue) + 1
    /\ put_log' = Append(put_log, STOP)
    /\ sd_pc' = [sd_pc EXCEPT ![c] = "join"]
    /\ sd_after' = [sd_after EXCEPT ![c] = \E b \in Shutdowns : sd_pc[b] = "returned"]
    /\ UNCHANGED <<moduleVars, handleVars, otelVars, trackerVars, workerVars, processorVars>>

\* Mutant of ShutdownPut: the owned provider is shut down first.
ShutdownPut_provider_first(c) ==
    /\ ProcessRunning
    /\ constructed
    /\ sd_pc[c] = "idle"
    /\ \A b \in Shutdowns : b < c => sd_pc[b] # "idle"
    /\ queue_put(STOP)
    /\ provider_down' = IF enable_otel /\ tracer_provider # None
                           /\ owns_tracer_provider = "True"
                        THEN provider_down \cup {tracer_provider}
                        ELSE provider_down
    /\ sd_pc' = [sd_pc EXCEPT ![c] = "join"]
    /\ sd_after' = [sd_after EXCEPT ![c] = \E b \in Shutdowns : sd_pc[b] = "returned"]
    /\ UNCHANGED <<moduleVars, handleVars, global_provider, trackerVars, workerVars,
                   processorVars>>

\* LLMTracker.shutdown, first step: self._send_queue.put(_STOP).  Calls are
\* numbered in the order they begin.
ShutdownPut(c) ==
    /\ ProcessRunning
    /\ constructed
    /\ sd_pc[c] = "idle"
    /\ \A b \in Shutdowns : b < c => sd_pc[b] # "idle"
    /\ queue_put(STOP)
    /\ sd_pc' = [sd_pc EXCEPT ![c] = "join"]
    /\ sd_after' = [sd_after EXCEPT ![c] = SomeReturned]
    /\ UNCHANGED <<moduleVars, handleVars, otelVars, trackerVars, workerVars, processorVars>>

\* Mutant of ShutdownJoin: the wait for the queue gives up after a timeout.
ShutdownJoin_timeout(c) ==
    /\ ProcessRunning
    /\ sd_pc[c] = "join"
    /\ sd_pc' = [sd_pc EXCEPT ![c] = "thread_join"]
    /\ UNCHANGED <<moduleVars, handleVars, otelVars, trackerVars, queueVars, workerVars,
                   processorVars, sd_after>>

\* self._send_queue.join(): returns once unfinished_tasks is zero.
ShutdownJoin(c) ==
    /\ ProcessRunning
    /\ sd_pc[c] = "join"
    /\ unfinished_tasks = 0
    /\ sd_pc' = [sd_pc EXCEPT ![c] = "thread_join"]
    /\ UNCHANGED <<moduleVars, handleVars, otelVars, trackerVars, queueVars, workerVars,
                   processorVars, sd_after>>

\* if self._sender_thread.is_alive(): self._sender_thread.join(timeout=5):
\* returns when the thread has ended or the timeout has elapsed.
ShutdownThreadJoin(c) ==
    /\ ProcessRunning
    /\ sd_pc[c] = "thread_join"
    /\ sd_pc' = [sd_pc EXCEPT ![c] = "otel"]
    /\ UNCHANGED <<moduleVars, handleVars, otelVars, trackerVars, queueVars, workerVars,
                   processorVars, sd_after>>

\* Mutant of ShutsProviderDown: the ownership test is missing.
ShutsProviderDown_unowned == enable_otel /\ tracer_provider # None

\* The condition under which shutdown() shuts the tracer provider down.
ShutsProviderDown ==
    enable_otel /\ tracer_provider # None /\ owns_tracer_provider = "True"

\* Mutant of ShutdownOtel: shutdown() also resets the session id.
ShutdownOtel_forgetting(c) ==
    /\ ProcessRunning
    /\ sd_pc[c] = "otel"
    /\ provider_down' = IF ShutsProviderDown
                        THEN provider_down \cup {tracer_provider}
                        ELSE provider_down
    /\ sd_pc' = [sd_pc EXCEPT ![c] = "returned"]
    /\ session_id' = None
    /\ UNCHANGED <<moduleVars, agent_id, thread_id, tagVars, sideVars,
                   global_provider, trackerVars, queueVars, workerVars,
                   processorVars, sd_after>>

\* The provider shutdown of shutdown(), then its return.
ShutdownOtel(c) ==
    /\ ProcessRunning
    /\ sd_pc[c] = "otel"
    /\ provider_down' = IF ShutsProviderDown
                        THEN provider_down \cup {tracer_provider}
                        ELSE provider_down
    /\ sd_pc' = [sd_pc EXCEPT ![c] = "returned"]
    /\ UNCHANGED <<moduleVars, handleVars, global_provider, trackerVars, queueVars, workerVars,
                   processorVars, sd_after>>

(* ------------------- tags and the package's surface ------------------- *)

\* new_core.get_tracker(): the value of new_core's own _global_tracker.
\* neatlogs/__init__.py imports this function; init() assigns the
\* _global_tracker of neatlogs/__init__.py, a different module global.
get_tracker == core_global_tracker

\* `tag in self.tags`
Contains(seq, tag) == \E i \in DOMAIN seq : seq[i] = tag

\* LLMTracker.add_tags(a_tags) entered by thread t: `with self._lock`
\* acquires the lock, which no other thread may hold.
add_tags_enter(t, a_tags) ==
    /\ ProcessRunning
    /\ constructed
    /\ add_tags_pc[t] = "idle"
    /\ add_tags_calls < MaxTagCalls
    /\ tags_lock = NoThread
    /\ tags_lock' = t
    /\ add_tags_pc' = [add_tags_pc EXCEPT ![t] = "loop"]
    /\ add_tags_left' = [add_tags_left EXCEPT ![t] = a_tags]
    /\ add_tags_calls' = add_tags_calls + 1

\* tracker.add_tags(tags) called on the tracker handle.
AddTagsCall(t) ==
    /\ \E a_tags \in TagArgs : add_tags_enter(t, a_tags)
    /\ UNCHANGED <<tags, mod_add_tags>>
    /\ UNCHANGED <<moduleVars, otelVars, identityVars, sideVars, trackerVars,
                   queueVars, workerVars, processorVars, shutdownVars>>

\* One turn of `for tag in tags: if tag not in self.tags:
\* self.tags.append(tag)`, or the end of the loop, which leaves the with
\* block and returns.
AddTagsLoop(t) ==
    /\ ProcessRunning
    /\ add_tags_pc[t] = "loop"
    /\ IF add_tags_left[t] = <<>>
       THEN /\ tags_lock' = NoThread
            /\ add_tags_pc' = [add_tags_pc EXCEPT ![t] = "idle"]
            /\ UNCHANGED <<tags, add_tags_left>>
       ELSE LET tag == Head(add_tags_left[t])
            IN  /\ tags' = IF Contains(tags, tag) THEN tags ELSE Append(tags, tag)
                /\ add_tags_left' = [add_tags_left EXCEPT ![t] = Tail(@)]
                /\ UNCHANGED <<tags_lock, add_tags_pc>>
    /\ UNCHANGED <<add_tags_calls, mod_add_tags>>
    /\ UNCHANGED <<moduleVars, otelVars, identityVars, sideVars, trackerVars,
                   queueVars, workerVars, processorVars, shutdownVars>>

\* neatlogs.add_tags(tags) called by thread t: RuntimeError when
\* get_tracker() returns nothing, else tracker.add_tags(tags).
module_add_tags(t) ==
    /\ ProcessRunning
    /\ add_tags_pc[t] = "idle"
    /\ add_tags_calls < MaxTagCalls
    /\ IF get_tracker = None
       THEN /\ mod_add_tags' = [result |-> "RuntimeError",
                                after_init |-> init_result = "returned"]
            /\ add_tags_calls' = add_tags_calls + 1
            /\ UNCHANGED <<tags, tags_lock, add_tags_pc, add_tags_left>>
       ELSE /\ \E a_tags \in TagArgs : add_tags_enter(t, a_tags)
            /\ mod_add_tags' = [result |-> "tracker.add_tags",
                                after_init |-> init_result = "returned"]
            /\ UNCHANGED tags
    /\ UNCHANGED <<moduleVars, otelVars, identityVars, sideVars, trackerVars,
                   queueVars, workerVars, processorVars, shutdownVars>>

(* -------------------------- interpreter exit -------------------------- *)

\* neatlogs._shutdown_neatlogs, the handler registered with atexit, called
\* when the interpreter begins to exit: tracker = get_tracker(); if
\* tracker: tracker.shutdown().  The call it makes takes the steps of any
\* shutdown() call, starting with the put of the sentinel.
shutdown_neatlogs ==
    /\ process_pc = "running"
    /\ process_pc' = "atexit"
    /\ IF get_tracker = None
       THEN /\ exit_call' = NoCall
            /\ UNCHANGED <<queueVars, shutdownVars>>
       ELSE \E c \in Shutdowns :
            /\ sd_pc[c] = "idle"
            /\ \A b \in Shutdowns : b < c => sd_pc[b] # "idle"
            /\ exit_call' = c
            /\ queue_put(STOP)
            /\ sd_pc' = [sd_pc EXCEPT ![c] = "join"]
            /\ sd_after' = [sd_after EXCEPT ![c] = SomeReturned]
    /\ UNCHANGED <<moduleVars, otelVars, identityVars, tagVars, serVars, ctxVars, instVars, prodVars,
                   trackerVars, workerVars, processorVars>>

\* The exit handler has returned.
HandlerReturned ==
    /\ process_pc = "atexit"
    /\ IF exit_call = NoCall THEN TRUE ELSE sd_pc[exit_call] = "returned"

\* The interpreter ends once its exit handlers have returned.  The sender
\* thread is a daemon thread (daemon=True): it is not waited for and ends
\* with the process, wherever it stands.
ProcessEnd ==
    /\ HandlerReturned
    /\ process_pc' = "ended"
    /\ worker_pc' = IF is_alive THEN "killed" ELSE worker_pc
    /\ UNCHANGED <<moduleVars, otelVars, identityVars, tagVars, exit_call, serVars,
                   ctxVars, instVars, prodVars,
                   trackerVars, queueVars, worker_item, posts, post_bodies, send_errors,
                   processorVars, shutdownVars>>

(* -------------------------- context registry -------------------------- *)

\* Mutant of ContextVar_set: a module-level variable shared by all units.
ContextVar_set_global(u, name, value) ==
    /\ unit_kind[u] # "none"
    /\ ctx_ops < MaxCtxOps
    /\ ctx_ops' = ctx_ops + 1
    /\ ctx' = [w \in Units |-> [ctx[w] EXCEPT ![name] = value]]
    /\ ctx_set' = [ctx_set EXCEPT ![u] = @ \cup {name}]
    /\ UNCHANGED <<unit_kind, unit_parent, ctx_inherited>>
    /\ UNCHANGED <<moduleVars, otelVars, identityVars, tagVars, exitVars, serVars, instVars, prodVars,
                   trackerVars, queueVars, workerVars, processorVars, shutdownVars>>

\* ContextVar.set(value) called in unit u: the value is bound in the
\* context of u and in no other.
ContextVar_set(u, name, value) ==
    /\ unit_kind[u] # "none"
    /\ ctx_ops < MaxCtxOps
    /\ ctx_ops' = ctx_ops + 1
    /\ ctx' = [ctx EXCEPT ![u][name] = value]
    /\ ctx_set' = [ctx_set EXCEPT ![u] = @ \cup {name}]
    /\ UNCHANGED <<unit_kind, unit_parent, ctx_inherited>>
    /\ UNCHANGED <<moduleVars, otelVars, identityVars, tagVars, exitVars, serVars, instVars, prodVars,
                   trackerVars, queueVars, workerVars, processorVars, shutdownVars>>

\* ContextVar.get() in unit u: the value bound in its context.
ContextVar_get(u, name) == ctx[u][name]

set_current_framework(u) == ContextVar_set(u, "framework", FrameworkOf(u))
get_current_framework(u) == ContextVar_get(u, "framework")
clear_current_framework(u) == ContextVar_set(u, "framework", None)

suppress_patching(u) == ContextVar_set(u, "suppress", TRUE)
release_patching(u) == ContextVar_set(u, "suppress", FALSE)
is_patching_suppressed(u) == ContextVar_get(u, "suppress")

set_active_langgraph_node_span(u) == ContextVar_set(u, "node_span", NodeSpanOf(u))
get_active_langgraph_node_span(u) == ContextVar_get(u, "node_span")
clear_active_langgraph_node_span(u) == ContextVar_set(u, "node_span", None)

\* Unit p creates unit u, which begins with the context `begins`.  Units
\* are numbered in the order of their creation.
CreateUnit(p, u, kind, begins) ==
    /\ unit_kind[p] # "none"
    /\ unit_kind[u] = "none"
    /\ \A w \in Units : w < u => unit_kind[w] # "none"
    /\ unit_kind' = [unit_kind EXCEPT ![u] = kind]
    /\ unit_parent' = [unit_parent EXCEPT ![u] = p]
    /\ ctx' = [ctx EXCEPT ![u] = begins]
    /\ ctx_inherited' = [ctx_inherited EXCEPT ![u] = begins]
    /\ UNCHANGED <<ctx_set, ctx_ops>>
    /\ UNCHANGED <<moduleVars, otelVars, identityVars, tagVars, exitVars, serVars, instVars, prodVars,
                   trackerVars, queueVars, workerVars, processorVars, shutdownVars>>

\* threading.Thread(...).start() in unit p: the new thread runs in an
\* empty context, every context variable at its default.
StartThread(p, u) == CreateUnit(p, u, "thread", DefaultContext)

\* asyncio.create_task(...) in unit p: the task runs in a copy of the
\* context p has at that moment.
CreateTask(p, u) == CreateUnit(p, u, "task", ctx[p])

(* ------------------- serialization of a single span ------------------- *)

\* Limbs at the edges of the range and inside it.
LimbValues == {0, 1, 255, 4096, 65535}
\* Trace ids over the whole 128-bit range: zero, 2^128 - 1 and values with
\* leading and inner zero limbs between them.
WideTraceIds ==
    {<<hi, fill, fill, fill, fill, fill, fill, lo>> :
        hi \in LimbValues, lo \in LimbValues, fill \in {0, 65535}}
\* Span ids over the whole 64-bit range.
WideSpanIds ==
    {<<hi, 0, 0, lo>> : hi \in {0, 10, 65535}, lo \in {0, 10, 65535}}

\* Values of an optional resource attribute: absent, empty, present.
Absent == "absent"
\* The resource attributes with session id s and thread id t.
ResourceWith(s, t) ==
    LET keys == {"service.name"}
                  \cup (IF s = Absent THEN {} ELSE {"neatlogs.session_id"})
                  \cup (IF t = Absent THEN {} ELSE {"neatlogs.thread_id"})
    IN  [k \in keys |-> CASE k = "service.name" -> "host"
                           [] k = "neatlogs.session_id" -> s
                           [] k = "neatlogs.thread_id" -> t]
ResourceInputs ==
    {ResourceWith(s, t) : s \in {Absent, "", "S"}, t \in {Absent, "", "T"}}

\* The spans serialize_span is applied to.
SerSpans == [kind : {"LLM"}, trace_id : WideTraceIds, span_id : WideSpanIds,
             fault : {"none"}, resource : ResourceInputs]

InitSerialize ==
    /\ InitTracker
    /\ InitContext
    /\ InitProducersIdle
    /\ InitInstrumentIdle
    /\ ser_pc = "input"
    /\ ser_span \in SerSpans
    /\ ser_out = NoSpan
    /\ ser_group = None

\* serialized = serialize_span(span)
Serialize ==
    /\ ser_pc = "input"
    /\ ser_out' = serialize_span(ser_span, ser_span.resource)
    /\ ser_pc' = "serialized"
    /\ UNCHANGED <<ser_span, ser_group>>
    /\ UNCHANGED <<moduleVars, otelVars, identityVars, tagVars, exitVars, ctxVars, instVars, prodVars,
                   trackerVars, queueVars, workerVars, processorVars, shutdownVars>>

\* external_trace_id = choose_external_trace_id(serialized)
ChooseId ==
    /\ ser_pc = "serialized"
    /\ ser_group' = choose_external_trace_id(ser_out)
    /\ ser_pc' = "chosen"
    /\ UNCHANGED <<ser_span, ser_out>>
    /\ UNCHANGED <<moduleVars, otelVars, identityVars, tagVars, exitVars, ctxVars, instVars, prodVars,
                   trackerVars, queueVars, workerVars, processorVars, shutdownVars>>

(* ------------------------ instrument_all steps ------------------------ *)

\* instrument_all(instrumentations) about to be called in some environment.
InitInstrument ==
    /\ inst_env \in Environments
    /\ inst_arg \in InstrumentationArgs
    /\ inst_result = "none"
    /\ inst_next = 1
    /\ inst_log = <<>>

\* instrument_all(instrumentations) is called.
instrument_all ==
    /\ inst_result = "none"
    /\ inst_result' = "running"
    /\ UNCHANGED <<inst_env, inst_arg, inst_next, inst_log>>
    /\ UNCHANGED <<moduleVars, otelVars, identityVars, tagVars, exitVars, serVars,
                   ctxVars, prodVars, trackerVars, queueVars, workerVars, processorVars,
                   shutdownVars>>

\* The block of the next library runs; an exception it does not catch
\* leaves instrument_all.
InstrumentLibrary ==
    /\ inst_result = "running"
    /\ inst_next \in DOMAIN Libraries
    /\ \E instrumentor_raises \in BOOLEAN :
          LET done == instrument_library(inst_env, inst_arg, Libraries[inst_next],
                                         instrumentor_raises)
          IN  /\ inst_log' = Append(inst_log, done)
              /\ inst_result' = IF done = "raised" THEN "raised" ELSE "running"
    /\ inst_next' = inst_next + 1
    /\ UNCHANGED <<inst_env, inst_arg>>
    /\ UNCHANGED <<moduleVars, otelVars, identityVars, tagVars, exitVars, serVars,
                   ctxVars, prodVars, trackerVars, queueVars, workerVars, processorVars,
                   shutdownVars>>

\* logger.info("Neatlogs: Auto-instrumentation setup complete."), return.
InstrumentAllReturn ==
    /\ inst_result = "running"
    /\ inst_next \notin DOMAIN Libraries
    /\ inst_result' = "returned"
    /\ UNCHANGED <<inst_env, inst_arg, inst_next, inst_log>>
    /\ UNCHANGED <<moduleVars, otelVars, identityVars, tagVars, exitVars, serVars,
                   ctxVars, prodVars, trackerVars, queueVars, workerVars, processorVars,
                   shutdownVars>>

(* --------------------------- specification ---------------------------- *)

(* --------------------- concurrent span completion --------------------- *)

\* The tracing runtime calls on_end on the thread that ends the span, so
\* several calls may be in progress at once.  A call works on locals until
\* it reaches self.tracker._enqueue_span(call_data); queue.Queue.put runs
\* under the queue's mutex and is one step.

\* The n-th span thread t ends opens a trace of its own: a span without a
\* span kind, or one with a kind that serializes or fails to.
ThreadSpans(t, n) ==
    {s \in [kind : SpanKinds, trace_id : {TraceIds[(t - 1) * MaxEnds + n]},
             span_id : {ToWide(7, 4)}, fault : SpanFaults] :
        s.kind = "absent" => s.fault = "none"}

\* Mutant of StoreCallData: call_data is an attribute of the processor,
\* shared by the threads, instead of a local of the call.
StoreCallData_shared(t, call_data) ==
    prod_data' = [u \in ProducerThreads |-> call_data]

\* call_data = NewLLMCallData(...): a local variable of the call.
StoreCallData(t, call_data) ==
    prod_data' = [prod_data EXCEPT ![t] = call_data]

\* on_end on thread t, from its entry to the construction of call_data:
\* the filter returns, an exception is caught and logged, else call_data is
\* built; the object is told apart by the thread and the number of the call.
OnEndBuild(t, span) ==
    /\ ProcessRunning
    /\ constructed
    /\ processor_attached
    /\ prod_pc[t] = "idle"
    /\ on_end_calls' = on_end_calls + 1
    /\ prod_spans' = [prod_spans EXCEPT ![t] = Append(@, span)]
    /\ IF ~Truthy(span_kind(span))
       THEN /\ on_end_path' = "filtered"
            /\ UNCHANGED <<prod_pc, prod_data, proc_errors>>
       ELSE IF span.fault = "serialize"
       THEN /\ on_end_path' = "raised"
            /\ proc_errors' = proc_errors + 1
            /\ UNCHANGED <<prod_pc, prod_data>>
       ELSE LET serialized == serialize_span(span, ResourceAttrs(tracer_provider))
                external_trace_id == choose_external_trace_id(serialized)
                call_data == NewLLMCallData(<<t, Len(prod_spans[t]) + 1>>,
                                            external_trace_id, serialized, ApiKey)
            IN  /\ StoreCallData(t, call_data)
                /\ prod_pc' = [prod_pc EXCEPT ![t] = "put"]
                /\ UNCHANGED <<on_end_path, proc_errors>>
    /\ UNCHANGED <<moduleVars, otelVars, identityVars, tagVars, exitVars, serVars, ctxVars,
                   instVars, trackerVars, queueVars, workerVars, dry_log, on_end_raised,
                   shutdownVars>>

\* The rest of on_end on thread t: the enqueue when server sending is
\* enabled and the tracker is not in dry run, else the dry-run record or
\* nothing; then the return.
OnEndPut(t) ==
    /\ ProcessRunning
    /\ prod_pc[t] = "put"
    /\ IF ShouldEnqueue
       THEN /\ enqueue_span(prod_data[t])
            /\ on_end_path' = "enqueued"
            /\ UNCHANGED dry_log
       ELSE IF dry_run
       THEN /\ dry_log' = Append(dry_log, prod_data[t].trace_id)
            /\ on_end_path' = "dry_run"
            /\ UNCHANGED queueVars
       ELSE /\ on_end_path' = "dropped"
            /\ UNCHANGED <<queueVars, dry_log>>
    /\ prod_pc' = [prod_pc EXCEPT ![t] = "idle"]
    /\ UNCHANGED <<moduleVars, otelVars, identityVars, tagVars, exitVars, serVars, ctxVars,
                   instVars, prod_data, prod_spans, trackerVars, workerVars, on_end_calls,
                   proc_errors, on_end_raised, shutdownVars>>

OnEndThreads ==
    \E t \in ProducerThreads :
        \/ /\ Len(prod_spans[t]) < MaxEnds
           /\ \E span \in ThreadSpans(t, Len(prod_spans[t]) + 1) : OnEndBuild(t, span)
        \/ OnEndPut(t)

\* A tracker, threads ending spans, and the worker, before any shutdown.
NextProducers ==
    \/ NewTracker
    \/ OnEndThreads
    \/ WorkerGet
    \/ WorkerSend
    \/ WorkerPostReturn
    \/ WorkerTaskDone

SpecProducers == Init /\ [][NextProducers]_vars

\* The steps of a constructed tracker: producers, worker, shutdown calls.
PipelineNext ==
    \/ OnEnd
    \/ EnqueueSpan
    \/ log_llm_call
    \/ WorkerGet
    \/ WorkerSend
    \/ WorkerPostReturn
    \/ WorkerTaskDone
    \/ WorkerStop
    \/ WorkerExit
    \/ \E c \in Shutdowns : ShutdownPut(c)
    \/ \E c \in Shutdowns : ShutdownJoin(c)
    \/ \E c \in Shutdowns : ShutdownThreadJoin(c)
    \/ \E c \in Shutdowns : ShutdownOtel(c)

\* The tracker is constructed by the host with any constructor arguments.
Next == NewTracker \/ PipelineNext

Spec == Init /\ [][Next]_vars

\* The steps that are taken when they can be: the sender thread runs
\* (every POST returns or raises, at the latest by its timeout of five
\* seconds) and a thread inside shutdown() runs on.
WorkerStep ==
    WorkerGet \/ WorkerSend \/ WorkerPostReturn \/ WorkerTaskDone \/ WorkerStop \/ WorkerExit

ShutdownStep(c) == ShutdownJoin(c) \/ ShutdownThreadJoin(c) \/ ShutdownOtel(c)

Fairness ==
    /\ WF_vars(WorkerStep)
    /\ \A c \in Shutdowns : WF_vars(ShutdownStep(c))

\* The tracker with its threads scheduled fairly.
SpecLive == Init /\ [][Next]_vars /\ Fairness

\* The tracker is constructed through neatlogs.init, and the interpreter
\* exits at any moment.
NextInit == init \/ PipelineNext \/ shutdown_neatlogs \/ ProcessEnd

SpecInit == Init /\ [][NextInit]_vars

\* The identity arguments a host may pass: all, none, or some ("" is
\* falsy, like None).
IdArgs == {GivenIds, NoIds,
           [session_id |-> "", agent_id |-> AgentId, thread_id |-> None]}

\* The tracker handle: a tracker built by the host or by neatlogs.init
\* with any identity and tags, and the threads that add tags to it.
NextTags ==
    \/ \E ids \in IdArgs, a_tags \in TagArgs : LLMTracker_call(ids, a_tags)
    \/ \E a_tags \in TagArgs : init_call(a_tags)
    \/ \E t \in TagThreads : AddTagsCall(t)
    \/ \E t \in TagThreads : AddTagsLoop(t)
    \/ \E t \in TagThreads : module_add_tags(t)

SpecTags == Init /\ [][NextTags]_vars

\* The context registry used by the threads and tasks of the process.
NextContext ==
    \/ \E u \in Units : set_current_framework(u)
    \/ \E u \in Units : clear_current_framework(u)
    \/ \E u \in Units : suppress_patching(u)
    \/ \E u \in Units : release_patching(u)
    \/ \E u \in Units : set_active_langgraph_node_span(u)
    \/ \E u \in Units : clear_active_langgraph_node_span(u)
    \/ \E p \in Units, u \in Units : StartThread(p, u)
    \/ \E p \in Units, u \in Units : CreateTask(p, u)

SpecContext == Init /\ [][NextContext]_vars

\* serialize_span and choose_external_trace_id applied to one span.
NextSerialize == Serialize \/ ChooseId

SpecSerialize == InitSerialize /\ [][NextSerialize]_vars

\* The values an instrumentation may attach to a span: scalars of the
\* listed types, other objects (a datetime, a tuple, bytes), and lists and
\* dicts holding such values, nested up to two levels.
ScalarTypes == {"str", "int", "float", "bool", "NoneType", "object", "tuple"}
ScalarValues == {Py(t, <<>>) : t \in ScalarTypes}
FlatContainers ==
    {Py(c, items) : c \in {"list", "dict"},
                    items \in {<<>>} \cup {<<v>> : v \in ScalarValues}
                                \cup {<<Py("int", <<>>), v>> : v \in ScalarValues}}
NestedContainers ==
    {Py(c, <<v>>) : c \in {"list", "dict"}, v \in FlatContainers}
PyValues == ScalarValues \cup FlatContainers \cup NestedContainers

\* The spans whose attributes and resource attributes hold such a value.
AttrSpans ==
    [kind : {"LLM"}, trace_id : {ToWide(255, 8)}, span_id : {ToWide(7, 4)},
     fault : {"none"}, custom : PyValues,
     resource : {[k \in {"service.name", "custom"} |->
                    IF k = "custom" THEN v ELSE "host"] :
                        v \in ScalarValues \cup FlatContainers}]

InitSerializeAttrs ==
    /\ InitTracker
    /\ InitContext
    /\ InitProducersIdle
    /\ InitInstrumentIdle
    /\ ser_pc = "input"
    /\ ser_span \in AttrSpans
    /\ ser_out = NoSpan
    /\ ser_group = None

\* serialize_span applied to one span with attributes of any type.
SpecSerializeAttrs == InitSerializeAttrs /\ [][NextSerialize]_vars

\* instrument_all called once in any environment.
InitInstrumentAll ==
    /\ InitTracker
    /\ InitContext
    /\ InitProducersIdle
    /\ InitInstrument
    /\ ser_pc = "idle"
    /\ ser_span = NoSpan
    /\ ser_out = NoSpan
    /\ ser_group = None

NextInstrument == instrument_all \/ InstrumentLibrary \/ InstrumentAllReturn

SpecInstrument == InitInstrumentAll /\ [][NextInstrument]_vars

(* ------------------------- derived quantities ------------------------- *)

\* Position in put_log of the first stop sentinel, or one past its end.
FirstStop ==
    IF \E i \in DOMAIN put_log : put_log[i] = STOP
    THEN CHOOSE i \in DOMAIN put_log :
            put_log[i] = STOP /\ \A j \in 1..(i - 1) : put_log[j] # STOP
    ELSE Len(put_log) + 1

\* The delivery items enqueued before shutdown: those ahead of the first
\* sentinel, in enqueue order.
EnqueuedBeforeShutdown == SubSeq(put_log, 1, FirstStop - 1)

\* The sequence numbers of a sequence of delivery items.
Seqs(items) == [i \in DOMAIN items |-> items[i].seq]

\* No element of the sequence occurs twice.
NoDuplicates(q) == \A i, j \in DOMAIN q : i # j => q[i] # q[j]

\* A shutdown() call that can never return: it waits in queue.join() for
\* unfinished_tasks to reach zero and the only consumer has ended.
BlockedForever(c) ==
    sd_pc[c] = "join" /\ unfinished_tasks > 0 /\ worker_pc \in {"break", "dead"}

(* ------------------------------- claims ------------------------------- *)

\* C1: shutdown drain.  With server sending enabled, once the worker thread
\* has terminated the number of delivery attempts (POSTs) equals the number
\* N of items enqueued before shutdown put its sentinel, whatever the
\* outcome of each attempt.
C1_ShutdownDrain ==
    (enable_server_sending /\ worker_pc = "dead")
        => Len(posts) = Len(EnqueuedBeforeShutdown)

\* Two items enqueued, then shutdown: the worker has ended after two POSTs.
C1_Witness ==
    /\ enable_server_sending
    /\ worker_pc = "dead"
    /\ Len(EnqueuedBeforeShutdown) = 2
    /\ Len(posts) = 2

\* C2 (as claimed): a shutdown() call made after another shutdown() call
\* has returned returns too: it is never left waiting forever.
C2_SecondShutdownReturns ==
    \A c \in Shutdowns : sd_after[c] => ~BlockedForever(c)

\* C3: delivery attempts occur in enqueue order: at every moment the POSTs
\* issued so far are, in order, the first items enqueued before shutdown,
\* and at most the last of them is still in flight.
C3_FifoAttempts ==
    /\ Len(posts) <= Len(EnqueuedBeforeShutdown)
    /\ posts = SubSeq(EnqueuedBeforeShutdown, 1, Len(posts))
    /\ worker_pc = "post" => worker_item = posts[Len(posts)]

\* Items a, b enqueued, then shutdown: the POST sequence is a, b.
C3_Witness ==
    /\ worker_pc = "dead"
    /\ Len(posts) = 2
    /\ [i \in 1..2 |-> posts[i].trace_id] = <<"a", "b">>

\* C4: a failed delivery attempt neither ends the worker nor stops the
\* drain: the worker ends only by taking the sentinel, and when it has
\* ended after failures every item enqueued before shutdown was attempted.
C4_FailureDoesNotStopDrain ==
    /\ worker_pc \in {"break", "dead"} =>
          Len(put_log) - Len(send_queue) = FirstStop
    /\ (send_errors > 0 /\ worker_pc \in {"break", "dead"}) =>
          Seqs(posts) = Seqs(EnqueuedBeforeShutdown)

\* Two items, both attempts failed: the second attempt was made after the
\* first had failed, and the worker ended only on the sentinel.
C4_Witness ==
    /\ worker_pc = "dead"
    /\ send_errors = 2
    /\ Len(posts) = 2
    /\ Len(EnqueuedBeforeShutdown) = 2

\* C5: every delivery item is put on the queue once and attempted at most
\* once, whatever the outcome of its attempt.
C5_AtMostOnce ==
    /\ NoDuplicates(Seqs(posts))
    /\ NoDuplicates(Seqs(SelectSeq(put_log, LAMBDA e : e # STOP)))

\* A failed attempt was followed by the next item's attempt.
C5_Witness ==
    /\ send_errors >= 1
    /\ Len(posts) = 2
    /\ worker_pc = "task_done"

\* What on_end may not touch when it ignores or fails on a span: the
\* queue, the dry-run records, the tracker, the worker, the providers.
PipelineVars ==
    <<queueVars, dry_log, trackerVars, workerVars, otelVars, moduleVars, shutdownVars>>

\* C6: filtering.  An on_end call for a span without the
\* "openinference.span.kind" attribute returns at the filter, before any
\* serialization: it enqueues nothing, writes no dry-run record, logs no
\* error and leaves the queue and the tracker as they were.
C6_FilteredSpanNoEffect ==
    [][\A span \in Spans(NextSeq) :
          (span.kind = "absent" /\ on_end(span)) =>
              /\ on_end_path' = "filtered"
              /\ UNCHANGED <<PipelineVars, proc_errors, on_end_raised>>]_vars

\* A span without the kind attribute was ignored while items were queued.
C6_Witness ==
    /\ on_end_path = "filtered"
    /\ send_queue # <<>>
    /\ put_log # <<>>

\* The grouping identifier of a span captured by this tracker.
GroupingId(span) ==
    choose_external_trace_id(serialize_span(span, ResourceAttrs(tracer_provider)))

\* C7: dry run.  A dry-run tracker never issues a POST, and its on_end
\* enqueues nothing: for a qualifying span it appends one record carrying
\* the span's grouping identifier to the dry-run log instead.
C7_DryRunNoPost ==
    /\ [](dry_run => posts = <<>>)
    /\ [][\A span \in Spans(NextSeq) :
            (dry_run /\ on_end(span)) =>
                /\ UNCHANGED queueVars
                /\ (span.kind # "absent" /\ span.fault = "none") =>
                      dry_log' = Append(dry_log, GroupingId(span))]_vars

\* A dry-run tracker logged a qualifying span, and its worker consumed an
\* item handed to _enqueue_span directly without a POST.
C7_Witness ==
    /\ dry_run
    /\ on_end_path = "dry_run"
    /\ dry_log # <<>>
    /\ \E i \in DOMAIN put_log : put_log[i] # STOP
    /\ worker_pc = "task_done"

\* C8: on_end never raises to the tracing runtime.  A span whose
\* processing raises costs one error record and changes nothing else, so
\* the next span meets the pipeline the failed call found.
C8_OnEndNeverRaises ==
    /\ [](~on_end_raised)
    /\ [][\A span \in Spans(NextSeq) :
            (span.kind # "absent" /\ span.fault # "none" /\ on_end(span)) =>
                /\ proc_errors' = proc_errors + 1
                /\ UNCHANGED PipelineVars]_vars

\* After a span whose processing raised, a later qualifying span was
\* enqueued.
C8_Witness ==
    /\ proc_errors >= 1
    /\ on_end_path = "enqueued"
    /\ ~on_end_raised

\* C9: a tracker attached to a provider of the host never shuts it down.
C9_HostProviderNeverShutDown ==
    \A p \in HostProviders : p \notin provider_down

\* A tracker attached to the host's provider, OpenTelemetry enabled, whose
\* shutdown() has returned.
C9_Witness ==
    /\ tracer_provider \in HostProviders
    /\ owns_tracer_provider = "False"
    /\ enable_otel
    /\ \E c \in Shutdowns : sd_pc[c] = "returned"

\* C10 (as claimed): once the stop sentinel is on the queue no delivery
\* item is put behind it.
C10_NoItemBehindSentinel ==
    \A i, j \in DOMAIN put_log : (i < j /\ put_log[i] = STOP) => put_log[j] = STOP

\* C11: get_tracker() returns None before any init() call, and once init()
\* has returned a tracker it returns that same tracker.  init() returns the
\* package's _global_tracker.
C11_GetTrackerReturnsInitTracker ==
    /\ pkg_global_tracker = None => get_tracker = None
    /\ init_result = "returned" => get_tracker = pkg_global_tracker

\* C12: neatlogs.add_tags(tags) raises RuntimeError("Tracker not
\* initialized") only when init() has never been called; once init() has
\* returned a tracker, the call adds the tags to it and does not raise.
C12_AddTagsAfterInitDoesNotRaise ==
    mod_add_tags.result = "RuntimeError" => ~mod_add_tags.after_init

\* The delivery items ever enqueued (the sentinels left out).
ItemsEnqueued == SelectSeq(put_log, LAMBDA e : e # STOP)

\* C13: at interpreter exit, a tracker created through init() is shut down
\* by the exit handler, so that when the process has ended every item
\* enqueued before the exit has had its delivery attempt.
C13_ExitDrainsQueue ==
    (process_pc = "ended" /\ init_result = "returned" /\ enable_server_sending)
        => Len(posts) = Len(ItemsEnqueued)

\* The session id and thread id attributes of the span being serialized.
SerSession == Get(ser_span.resource, "neatlogs.session_id")
SerThread == Get(ser_span.resource, "neatlogs.thread_id")
\* An optional attribute is present and non-empty.
NonEmpty(v) == v \notin {None, ""}

\* C14: grouping precedence of choose_external_trace_id.  With session id S
\* and thread id T both present and non-empty the result is S; with only T
\* present and non-empty the result is T; with neither (absent or empty)
\* the result is the span's own context.trace_id.
C14_GroupingPrecedence ==
    ser_pc = "chosen" =>
        /\ (NonEmpty(SerSession) /\ NonEmpty(SerThread)) => ser_group = SerSession
        /\ (~NonEmpty(SerSession) /\ NonEmpty(SerThread)) => ser_group = SerThread
        /\ (~NonEmpty(SerSession) /\ ~NonEmpty(SerThread))
              => ser_group = ser_out.context.trace_id

\* An empty session id with a thread id: the resolver has answered the
\* thread id.
C14_Witness ==
    /\ ser_pc = "chosen"
    /\ SerSession = ""
    /\ SerThread = "T"
    /\ ser_group = "T"

\* The sixteen lowercase hexadecimal characters.
LowerHex == {HexDigit(d) : d \in 0..15}
\* Every character of s is a lowercase hexadecimal character.
IsLowerHex(s) == \A i \in 1..Len(s) : SubSeq(s, i, i) \in LowerHex
\* The value of a hexadecimal character.
HexValue(ch) == CHOOSE d \in 0..15 : HexDigit(d) = ch
\* int(s, 16) as limbs: each run of four characters is one limb.
FromHex(s) ==
    [i \in 1..(Len(s) \div 4) |->
        ((HexValue(SubSeq(s, 4 * i - 3, 4 * i - 3)) * 16
            + HexValue(SubSeq(s, 4 * i - 2, 4 * i - 2))) * 16
            + HexValue(SubSeq(s, 4 * i - 1, 4 * i - 1))) * 16
            + HexValue(SubSeq(s, 4 * i, 4 * i))]

\* C15: for every trace id in 0..2^128-1 and span id in 0..2^64-1, zero
\* included, the serialized context.trace_id is exactly 32 lowercase
\* hexadecimal characters and context.span_id exactly 16, zero-padded on
\* the left, and each decodes back to the input integer.
C15_HexIds ==
    ser_pc # "input" =>
        /\ Len(ser_out.context.trace_id) = 32
        /\ IsLowerHex(ser_out.context.trace_id)
        /\ FromHex(ser_out.context.trace_id) = ser_span.trace_id
        /\ Len(ser_out.context.span_id) = 16
        /\ IsLowerHex(ser_out.context.span_id)
        /\ FromHex(ser_out.context.span_id) = ser_span.span_id

\* A trace id of zero with a span id of 2^64 - 2^48 + 10 has been
\* serialized: all padding on one side, leading digits on the other.
C15_Witness ==
    /\ ser_pc = "serialized"
    /\ ser_span.trace_id = <<0, 0, 0, 0, 0, 0, 0, 0>>
    /\ ser_span.span_id = <<65535, 0, 0, 10>>
    /\ ser_out.context.trace_id = "00000000000000000000000000000000"
    /\ ser_out.context.span_id = "ffff00000000000a"

RECURSIVE Ancestors(_)
\* The units a unit descends from: its creator, the creator's creator, ...
Ancestors(u) ==
    IF unit_parent[u] = NoUnit THEN {}
    ELSE {unit_parent[u]} \cup Ancestors(unit_parent[u])

\* The units whose set calls may have bound the value unit u reads: the
\* unit itself and the units it descends from.  Any other unit is a sibling.
Lineage(u) == {u} \cup Ancestors(u)

\* No get in a unit returns a value that a sibling unit has set.
NoSiblingValue ==
    \A u \in Units :
        /\ get_current_framework(u) \in
              {None} \cup {FrameworkOf(w) : w \in Lineage(u)}
        /\ get_active_langgraph_node_span(u) \in
              {None} \cup {NodeSpanOf(w) : w \in Lineage(u)}
        /\ is_patching_suppressed(u)
              => \E w \in Lineage(u) : "suppress" \in ctx_set[w]

\* C16 as claimed: a value set in one unit is never observed by a get in a
\* sibling unit, and a unit that never set a value reads the default
\* (None, None, False).
C16_UnsetReadsDefault ==
    /\ NoSiblingValue
    /\ \A u \in Units : \A name \in ContextVarNames :
          name \notin ctx_set[u] => ContextVar_get(u, name) = DefaultContext[name]

\* C16 amended: a value set in one unit is never observed by a get in a
\* sibling unit; a unit that never set a value reads the value it began
\* with, which is the default in a thread and its creator's value at the
\* moment of creation in a task.
C16_UnsetReadsInherited ==
    /\ NoSiblingValue
    /\ \A u \in Units : \A name \in ContextVarNames :
          /\ name \notin ctx_set[u] => ContextVar_get(u, name) = ctx_inherited[u][name]
          /\ unit_kind[u] = "thread" => ctx_inherited[u] = DefaultContext

\* The main thread set its framework and then created two tasks; one of
\* them set its own framework, the other, which set nothing, still reads
\* the main thread's.
C16_Witness ==
    /\ unit_kind[2] = "task" /\ unit_kind[3] = "task"
    /\ unit_parent[2] = 1 /\ unit_parent[3] = 1
    /\ get_current_framework(1) = FrameworkOf(1)
    /\ get_current_framework(2) = FrameworkOf(2)
    /\ ctx_set[3] = {}
    /\ get_current_framework(3) = FrameworkOf(1)

\* C17: in every reachable state the tracker's tags are a sequence of
\* unique strings (add_tags appends only the tags not already present, in
\* argument order, also when several threads call it).
C17_TagsUnique == NoDuplicates(tags)

\* C18: the tracking identity is immutable.  session_id, agent_id and
\* thread_id are fixed when the tracker is constructed: no step taken once
\* it is constructed (an enqueue, on_end, a worker step, a shutdown step,
\* add_tags) changes any of them.
C18_IdentityImmutable ==
    [][constructed => /\ session_id' = session_id
                      /\ agent_id' = agent_id
                      /\ thread_id' = thread_id]_vars

\* The identity the host passed is still in place after spans were
\* captured, an item was posted and a shutdown() call has returned.
C18_Witness ==
    /\ constructed
    /\ <<session_id, agent_id, thread_id>> = <<SessionId, AgentId, ThreadId>>
    /\ on_end_path = "enqueued"
    /\ Len(posts) > 0
    /\ SomeReturned

\* The delivery items the span processor has produced: the enqueued items
\* whose payload is a serialized span.
ProcessorItems ==
    SelectSeq(put_log, LAMBDA e : IF e = STOP THEN FALSE ELSE e.span.name # "direct")

\* C19: every delivery item produced by the span processor carries the
\* tracker's session id, agent id and thread id in its payload's
\* resource.attributes, whether the tracker created the tracer provider or
\* attached to one that existed.
C19_ItemsCarryIdentity ==
    \A i \in DOMAIN ProcessorItems :
        LET attrs == ProcessorItems[i].span.resource.attributes
        IN  /\ Get(attrs, "neatlogs.session_id") = session_id
            /\ Get(attrs, "neatlogs.agent_id") = agent_id
            /\ Get(attrs, "neatlogs.thread_id") = thread_id

\* C20: every HTTP delivery attempt is made by the single background
\* worker, never by a thread executing on_end, which only enqueues and
\* returns; so at most one attempt is in progress at any time.  A POST is
\* issued only by the worker's step from "send" to "post", for the item
\* the worker holds, one at a time; the step that issues it is no producer
\* call (on_end and the direct enqueues count their calls in on_end_calls).
C20_OnlyWorkerPosts ==
    [][posts' # posts =>
            /\ worker_pc = "send" /\ worker_pc' = "post"
            /\ posts' = Append(posts, worker_item)
            /\ on_end_calls' = on_end_calls]_vars

\* While the worker is inside the POST of the first item, on_end has
\* enqueued a second one, which waits on the queue.
C20_Witness ==
    /\ worker_pc = "post"
    /\ Len(posts) = 1
    /\ on_end_path = "enqueued"
    /\ Len(send_queue) > 0
    /\ posts[1].span.name # "direct"

\* elif self.tracker.dry_run: logger.info(f"[Dry Run] Captured span for
\* trace {external_trace_id}"): the record on_end hands to the logging
\* system for a dry-run span.  on_end calls no print().
DryRunRecord(external_trace_id) ==
    [call |-> "logger.info",
     prefix |-> "[Dry Run] Captured span for trace",
     trace_id |-> external_trace_id]

\* The dry-run records of the run, in order.
DryRunRecords == [i \in DOMAIN dry_log |-> DryRunRecord(dry_log[i])]

\* The records written to standard output with print().
StdoutRecords == SelectSeq(DryRunRecords, LAMBDA r : r.call = "print")

\* The LLM-kind spans a dry-run tracker's on_end has been given: each one
\* left a dry-run record or, when its serialization raised, an error record.
DryRunSpansEnded == Len(dry_log) + proc_errors

\* C21: with a tracker created by neatlogs.init(enable_otel=True,
\* dry_run=True), k completed LLM-kind spans produce exactly k records
\* "Neatlogs [Dry Run]: Processed span ..." on standard output, one per
\* span, none lost or duplicated.
C21_DryRunStdoutRecords ==
    (init_result = "returned" /\ dry_run) =>
        Len(SelectSeq(StdoutRecords,
                      LAMBDA r : r.prefix = "Neatlogs [Dry Run]: Processed span"))
            = DryRunSpansEnded

\* C22: instrument_all() completes without raising for every combination
\* of installed and missing libraries: a library whose target or whose
\* instrumentation package is not found is skipped, an instrumentor that
\* raises is caught and logged, and the remaining libraries are still
\* processed.
C22_InstrumentAllNeverRaises ==
    /\ inst_result # "raised"
    /\ inst_result = "returned" => Len(inst_log) = Len(Libraries)

RECURSIVE IsJson(_)
\* The value is of a type JSON can represent (string, number, bool, null,
\* list, mapping), and so is every value it holds.
IsJson(v) ==
    /\ v.type \in {"str", "int", "float", "bool", "NoneType", "list", "dict"}
    /\ \A i \in DOMAIN v.items : IsJson(v.items[i])

\* C23: for every input span, every value anywhere in the output of
\* serialize_span, the elements nested inside list or mapping attribute
\* values included, is of a type JSON can represent; no other object
\* survives serialization.
C23_OutputIsJson ==
    ser_pc # "input" =>
        /\ IsJson(ser_out.attributes["custom"])
        /\ IsJson(ser_out.resource.attributes["custom"])

\* OpenTelemetry setup did not succeed for the constructed tracker:
\* _setup_otel raised (enable_otel was reset to False although dry run
\* forces it on, or although a provider had already been taken), or the
\* provider it took has no add_span_processor.
SetupFailed ==
    /\ constructed
    /\ \/ dry_run /\ ~enable_otel
       \/ tracer_provider # None /\ ~enable_otel
       \/ tracer_provider # None /\ ~HasAddSpanProcessor(tracer_provider)

\* C24: setup failure degrades silently.  If the current tracer provider
\* does not support add_span_processor, or OpenTelemetry setup raises,
\* construction completes, no Neatlogs span processor captures spans
\* (nothing is ever enqueued by on_end), and a later shutdown() completes.
C24_SetupFailureNoCapture ==
    SetupFailed => ProcessorItems = <<>>

\* C25: shutdown() blocks its caller only until the drain completes or a
\* bounded timeout elapses: even if the queue never drains (a stalled or
\* already ended worker with undelivered elements) the call still returns,
\* so no call is ever left waiting in queue.join() for a worker that has
\* ended.
C25_ShutdownBounded ==
    \A c \in Shutdowns : ~BlockedForever(c)

\* The stop sentinels ever put on the queue.
SentinelsEnqueued == SelectSeq(put_log, LAMBDA e : e = STOP)

\* C26: over a tracker's whole lifetime the stop sentinel is enqueued at
\* most once, whatever sequence of shutdown() calls occurs.
C26_SentinelAtMostOnce == Len(SentinelsEnqueued) <= 1

\* The sender thread has ended.
WorkerEnded == worker_pc \in {"break", "dead", "killed"}

\* C27: each tracker has exactly one delivery worker.  The sender thread
\* is started by the construction step and by no other, in every mode
\* (dry run included); once it has ended no step starts it again; and it is
\* the only consumer: an element leaves the queue only by the get of that
\* thread, which takes the oldest one.
C27_SingleWorker ==
    [][/\ (~constructed /\ constructed') => (worker_pc = "unstarted" /\ worker_pc' = "get")
       /\ (worker_pc = "unstarted" /\ worker_pc' # "unstarted") => (~constructed /\ constructed')
       /\ WorkerEnded => WorkerEnded'
       /\ send_queue' # send_queue /\ Len(send_queue') <= Len(send_queue) =>
            /\ worker_pc = "get"
            /\ worker_item' = Head(send_queue)
            /\ send_queue' = Tail(send_queue)]_vars

\* The worker of a dry-run tracker has taken two items handed to
\* _enqueue_span and then the sentinel, and has ended.
C27_Witness ==
    /\ dry_run
    /\ worker_pc = "dead"
    /\ Len(ItemsEnqueued) = 2
    /\ send_queue = <<>>
    /\ unfinished_tasks = 0

\* The elements the worker has taken and not yet marked processed: the
\* one it holds between its get and its task_done, if any.
HeldByWorker ==
    IF worker_pc \in {"send", "post", "task_done", "stop"} THEN 1 ELSE 0

\* C28: every element taken from the queue (an item whose attempt
\* succeeded, failed or raised, or the stop sentinel) is marked processed
\* exactly once, so the queue's count of unfinished elements always equals
\* the number of elements still queued plus the one the worker holds.
C28_UnfinishedCount ==
    unfinished_tasks = Len(send_queue) + HeldByWorker

\* After a failed attempt was marked processed the worker holds the
\* sentinel, with an element put behind it still queued.
C28_Witness ==
    /\ send_errors = 1
    /\ worker_pc = "stop"
    /\ Len(send_queue) = 1
    /\ unfinished_tasks = 2

\* C29: if this tracker created the process-wide tracer provider, then
\* shutdown() shuts that provider down, also when a later step of
\* OpenTelemetry setup failed after the provider had been created and
\* installed: once a shutdown() call has returned, the provider is down.
C29_OwnedProviderShutDown ==
    (owns_tracer_provider = "True" /\ SomeReturned)
        => tracer_provider \in provider_down

\* Position in put_log of the sentinel that shutdown() call c has put:
\* calls are numbered in the order of their puts.
StopPos(c) ==
    CHOOSE i \in DOMAIN put_log :
        /\ put_log[i] = STOP
        /\ Cardinality({j \in 1..i : put_log[j] = STOP}) = c

\* The number of elements marked processed: the queue being FIFO with one
\* consumer, they are the first elements of put_log.
Processed == Len(put_log) - unfinished_tasks

\* The positions of a shutdown() call, in the order of its steps.
ShutdownSteps ==
    {<<"idle", "join">>, <<"join", "thread_join">>, <<"thread_join", "otel">>,
     <<"otel", "returned">>}

\* C30: shutdown() performs its steps in a fixed order: the sentinel is
\* enqueued, then the caller waits until the queue reports all elements
\* processed, then the worker is joined, and only after that is an owned
\* tracer provider shut down; the provider is never shut down while an item
\* enqueued before the sentinel is still unattempted.
C30_ShutdownOrder ==
    /\ [](\A c \in Shutdowns :
            sd_pc[c] \in {"thread_join", "otel", "returned"}
                => StopPos(c) <= Processed)
    /\ [](provider_down # {} =>
            /\ FirstStop <= Processed
            /\ enable_server_sending
                  => Seqs(posts) = Seqs(EnqueuedBeforeShutdown))
    /\ [][/\ \A c \in Shutdowns :
                sd_pc'[c] # sd_pc[c] => <<sd_pc[c], sd_pc'[c]>> \in ShutdownSteps
          /\ provider_down' # provider_down =>
                \E c \in Shutdowns : sd_pc[c] = "otel" /\ sd_pc'[c] = "returned"]_vars

\* Two items were enqueued and posted, the worker has ended, and the
\* shutdown() call has shut the owned provider down and returned.
C30_Witness ==
    /\ sd_pc[1] = "returned"
    /\ tracer_provider = OwnProvider
    /\ tracer_provider \in provider_down
    /\ Len(posts) = 2
    /\ worker_pc = "dead"

\* C31: shut down is terminal.  Once a shutdown() call has returned the
\* sender thread has ended and stays ended, and no step issues another
\* POST, whatever is invoked afterwards (on_end, _enqueue_span,
\* log_llm_call, another shutdown()).
C31_ShutdownTerminal ==
    /\ [](SomeReturned => WorkerEnded)
    /\ [][SomeReturned => (posts' = posts /\ worker_pc' \in {"break", "dead"})]_vars

\* A shutdown() has returned after one delivery attempt, an item was
\* enqueued afterwards and a second shutdown() was invoked: the item and
\* the second sentinel stay in the queue, the worker is dead.
C31_Witness ==
    /\ SomeReturned
    /\ worker_pc = "dead"
    /\ Len(posts) = 1
    /\ Len(ItemsEnqueued) = 2
    /\ Len(SentinelsEnqueued) = 2
    /\ Len(send_queue) = 2

\* The types the loop of serialize_span leaves alone: string, number,
\* bool, list, mapping, null.
ListedTypes == {"str", "int", "float", "bool", "list", "dict", "NoneType"}

\* The output mapping has the keys of the input mapping; under each key a
\* value of a listed type is the input value itself and a value of any
\* other type is its string representation.
CoercedFrom(out, in) ==
    /\ DOMAIN out = DOMAIN in
    /\ \A k \in DOMAIN in :
          IF k # "custom" THEN out[k] = in[k]
          ELSE IF in[k].type \in ListedTypes THEN out[k] = in[k]
          ELSE out[k] = Str(in[k]) /\ out[k] # in[k]

\* C32: attribute coercion in serialize_span.  For every key of the span
\* attributes and of the resource attributes, a value of type string,
\* number, bool, list, mapping or null is in the output unchanged under the
\* same key, a value of any other type is there as its string
\* representation, and no key is added or dropped.
C32_AttributeCoercion ==
    ser_pc # "input" =>
        /\ CoercedFrom(ser_out.attributes, SpanAttributes(ser_span))
        /\ CoercedFrom(ser_out.resource.attributes, ser_span.resource)

\* A span whose attribute is an object of an unlisted type and whose
\* resource attribute is a list holding such an object: the first is in
\* the output as its string form, the second as it was.
C32_Witness ==
    /\ ser_pc = "serialized"
    /\ ser_span.custom = Py("object", <<>>)
    /\ ser_out.attributes["custom"] = Str(Py("object", <<>>))
    /\ ser_span.resource["custom"] = Py("list", <<Py("tuple", <<>>)>>)
    /\ ser_out.resource.attributes["custom"] = Py("list", <<Py("tuple", <<>>)>>)

\* C33: all delivery items the span processor produces for one tracker
\* carry the same externalTraceId (the item's trace_id), also when the
\* tracing runtime gives their spans different trace ids.
C33_OneExternalTraceId ==
    \A i, j \in DOMAIN ProcessorItems :
        ProcessorItems[i].trace_id = ProcessorItems[j].trace_id

\* The calls of thread t, by number, whose span qualifies (it has a span
\* kind and serializes) and that have completed.
CompletedQualifying(t) ==
    {n \in DOMAIN prod_spans[t] :
        /\ Truthy(span_kind(prod_spans[t][n]))
        /\ prod_spans[t][n].fault = "none"
        /\ ~(prod_pc[t] = "put" /\ n = Len(prod_spans[t]))}

\* C34: concurrent span completion.  With delivery enabled and no
\* shutdown, whatever the interleaving of the on_end calls of several
\* threads, the items enqueued are exactly those of the completed calls
\* for qualifying spans: one item per call, none lost, none twice; and the
\* items of one thread are in the queue in the order of its calls.
C34_ConcurrentOnEnd ==
    ShouldEnqueue =>
        /\ {put_log[i].seq : i \in DOMAIN put_log}
              = UNION {{<<t, n>> : n \in CompletedQualifying(t)} : t \in ProducerThreads}
        /\ NoDuplicates(Seqs(put_log))
        /\ \A i, j \in DOMAIN put_log :
              (i < j /\ put_log[i].seq[1] = put_log[j].seq[1])
                  => put_log[i].seq[2] < put_log[j].seq[2]
        /\ \A i, j \in DOMAIN send_queue :
              (i < j /\ send_queue[i].seq[1] = send_queue[j].seq[1])
                  => send_queue[i].seq[2] < send_queue[j].seq[2]

\* Both threads are inside on_end at once, each with its second item
\* built and not yet enqueued, after each has enqueued its first item:
\* that of thread 2 went in ahead of that of thread 1.
C34_Witness ==
    /\ ShouldEnqueue
    /\ \A t \in ProducerThreads : prod_pc[t] = "put" /\ CompletedQualifying(t) = {1}
    /\ Seqs(put_log) = << <<2, 1>>, <<1, 1>> >>

\* C35: for every attempted delivery item the body of its POST has
\* externalTraceId equal to the item's trace id, dataDump equal to the
\* item's serialized span as it is, and projectAPIKey equal to the item's
\* api key when that is non-empty, else to the tracker's api key.
C35_PostBody ==
    /\ Len(post_bodies) = Len(posts)
    /\ \A i \in DOMAIN posts :
          /\ post_bodies[i].externalTraceId = posts[i].trace_id
          /\ post_bodies[i].dataDump = posts[i].span
          /\ post_bodies[i].projectAPIKey =
                IF posts[i].api_key \notin {None, ""}
                THEN posts[i].api_key
                ELSE ApiKey

\* Two items were attempted: one without an api key, sent under the
\* tracker's key, and one with its own key, sent under that.
C35_Witness ==
    /\ Len(posts) = 2
    /\ posts[1].api_key = None /\ post_bodies[1].projectAPIKey = ApiKey
    /\ posts[2].api_key = "item-key" /\ post_bodies[2].projectAPIKey = "item-key"
    /\ post_bodies[2].externalTraceId = "b"

\* C36: the delivery queue never blocks or drops on the producer side.
\* Whatever the queue's length and the worker's position, the put of
\* _enqueue_span can take its step (it waits for nothing), and an enqueue
\* by on_end appends exactly one item, the one it built for the span, to
\* the queue and moves nothing of the worker.
C36_EnqueueNeverBlocks ==
    /\ [](constructed => ENABLED enqueue_span(DirectCallData))
    /\ [][\A span \in Spans(NextSeq) :
            (on_end(span) /\ span.kind # "absent" /\ span.fault = "none" /\ ShouldEnqueue) =>
                /\ Len(send_queue') = Len(send_queue) + 1
                /\ SubSeq(send_queue', 1, Len(send_queue)) = send_queue
                /\ send_queue'[Len(send_queue')].span
                      = serialize_span(span, ResourceAttrs(tracer_provider))
                /\ UNCHANGED workerVars]_vars

\* on_end enqueued a second item behind one the worker had not yet taken.
C36_Witness ==
    /\ on_end_path = "enqueued"
    /\ Len(ProcessorItems) = 2
    /\ send_queue = ProcessorItems
    /\ worker_pc = "get"

\* C37: init() is a process-wide singleton constructor.  Every init()
\* call returns (none ends by raising), and what it returns is the one
\* tracker the package holds, constructed once with its one worker thread.
C37_InitSingleton ==
    /\ init_result # "raised"
    /\ init_result = "returned" =>
          (pkg_global_tracker = Tracker /\ constructed /\ worker_pc # "unstarted")

\* C38: in every reachable state of the tracker dry_run implies that
\* enable_server_sending is false, whatever the constructor was given; and
\* so a dry-run tracker's worker issues no POST, also for an item that
\* reached the queue through _enqueue_span directly.
C38_DryRunDisablesSending ==
    dry_run => (~enable_server_sending /\ posts = <<>> /\ worker_pc # "post")

\* A dry-run tracker was handed an item through _enqueue_span; the worker
\* took it and marked it processed without a POST, and shutdown() returned.
C38_Witness ==
    /\ dry_run
    /\ Len(ItemsEnqueued) = 1
    /\ ItemsEnqueued[1].span.name = "direct"
    /\ Processed = 2
    /\ SomeReturned
    /\ posts = <<>>

\* A delivery item was enqueued after shutdown() was first invoked: it
\* lies behind the first sentinel.
ItemBehindSentinel ==
    \E j \in DOMAIN put_log : j > FirstStop /\ put_log[j] # STOP

\* C39: shutdown liveness.  If no item is enqueued after shutdown() is
\* invoked (and every delivery attempt terminates, each thread running
\* on), the first shutdown() call eventually returns, and when it has the
\* worker has taken the sentinel and ended.
C39_ShutdownLiveness ==
    /\ (sd_pc[1] = "join") ~> (sd_pc[1] = "returned" \/ ItemBehindSentinel)
    /\ [](sd_pc[1] = "returned" =>
             (WorkerEnded /\ Len(put_log) - Len(send_queue) >= FirstStop))

\* The elements put on the queue behind the first stop sentinel.
BehindSentinel == SubSeq(put_log, FirstStop + 1, Len(put_log))

\* C40: a delivery item enqueued behind the stop sentinel is never
\* attempted and never leaves the queue: at every moment the elements put
\* behind the first sentinel are the last elements of the queue, in their
\* order, the worker holds none of them, and none of them was posted.
C40_BehindSentinelNeverAttempted ==
    /\ Len(BehindSentinel) <= Len(send_queue)
    /\ SubSeq(send_queue, Len(send_queue) - Len(BehindSentinel) + 1, Len(send_queue))
          = BehindSentinel
    /\ \A i \in DOMAIN BehindSentinel :
          /\ worker_pc \in {"send", "post", "task_done"} => worker_item # BehindSentinel[i]
          /\ \A j \in DOMAIN posts : posts[j] # BehindSentinel[i]

\* With server sending enabled, one item was attempted, shutdown() has
\* returned and the worker is dead; an item enqueued after the sentinel
\* sits in the queue, unattempted.
C40_Witness ==
    /\ enable_server_sending
    /\ worker_pc = "dead"
    /\ SomeReturned
    /\ Len(posts) = 1
    /\ Len(BehindSentinel) = 1
    /\ BehindSentinel[1] # STOP
    /\ send_queue = BehindSentinel

====
